---- MODULE Spec2Model ----
(***************************************************************************)
(* Send side of the intra-cluster streaming transport                      *)
(* (transport/send.go): one Stream with its send queue SQ (workCh), its    *)
(* send completion queue SCQ (cmplCh), the send loop, the completion loop, *)
(* the callers of Send / Fin / Stop, the HTTP client that reads the        *)
(* request body through Stream.Read, and the stream collector that posts   *)
(* idle ticks.                                                             *)
(***************************************************************************)
EXTENDS Integers, Sequences, FiniteSets, TLC

\* ------------------------------------------------------------------------
\* bounds of the model
\* ------------------------------------------------------------------------
MaxObjs == 2        \* objects the callers pass to Send, in total
MaxTicks == 1       \* idle ticks the collector posts
MaxInputs == 3      \* objects and idle ticks, in total
Burst == 2          \* capacity of SQ and of SCQ (burst)
getFromNeighRetries == 10
getFromNeighAfterJoin == 3      \* 30 s
HdrLen == 2         \* length, in bytes, of an encoded object header
MaxSize == 2        \* largest declared object size
MaxBuf == 2         \* largest buffer the HTTP client passes to Read
MaxBatch == 3       \* objects that share one ref-counter
MaxTime == 6        \* the clock stops here
maxRetrySeconds == 5 \* attempts to register
MaxClock == 3       \* the housekeeper's clock stops here
MaxDur == 2         \* longest interval of a housekeeping callback
MaxCap == 4         \* largest used-capacity value and threshold
MaxMpaths == 3      \* mountpaths of the target
MaxPending == 2     \* largest count of pending work of an on-demand xaction
MaxRequests == 2    \* requests put on the prefetch queue, in total
MaxName == 2        \* longest bucket name and namespace, in characters
MaxObjName == 3     \* longest object name, in characters
MaxVersion == 2     \* largest version of an Smap or a BMD
MaxRounds == 3      \* broadcasts of uncoverMeta until its deadline

\* ------------------------------------------------------------------------
\* program constants
\* ------------------------------------------------------------------------
\* math.MaxInt64 and math.MaxInt64 ^ 0xa5a5a5a5, scaled to the 32-bit
\* integers of the model checker: the largest integer, and the largest
\* integer with the (31-bit) mask 0x25a5a5a5 flipped.
lastMarker == 2147483647
tickMarker == 1515870810

inactive == 0
active == 1

reasonError == "error"
endOfStream == "end-of-stream"
reasonStopped == "stopped"

\* error values
ErrNil == "nil"             \* nil
ErrIO == "io"               \* the error returned by the HTTP client
ErrShort == "short"         \* "read (%d) shorter than expected (%d)"
ErrOffset == "offset"       \* "obj %s/%s offset %d != %d size"
ErrRead == "read"           \* an error, other than io.EOF, of the object's reader

\* the callers: one passes objects to Send, the other calls Fin
Sender == "sender"
Finisher == "finisher"
Procs == {Sender, Finisher}

Min(a, b) == IF a < b THEN a ELSE b

\* ------------------------------------------------------------------------
\* objects
\* ------------------------------------------------------------------------
\* Obj: id 0 is an internal object (zero value, idle tick, last marker);
\* Reader is "nil", "nopRC" or "rd" (a reader of the caller).
NoObj == [id |-> 0, Size |-> 0, Reader |-> "nil"]
TickObj == [NoObj EXCEPT !.Size = tickMarker]
LastObj == [NoObj EXCEPT !.Size = lastMarker]

\* what a caller may pass to Send
ObjInputs ==
    {[id |-> 0, Size |-> 0, Reader |-> "nil"],
     [id |-> 0, Size |-> MaxSize, Reader |-> "rd"]}

IsLast(o) == o.Size = lastMarker
IsIdleTick(o) == o.Size = tickMarker
IsHeaderOnly(o) == o.Size = 0 \/ IsLast(o)

\* length of the header that insHeader lays out in maxheader
insHeader(o) == HdrLen

VARIABLES
    sessST,     \* inactive | active
    workCh,     \* SQ
    cmplCh,     \* SCQ
    postCh,     \* number of posts buffered in postCh (capacity 1)
    lastCh,     \* lastCh is closed
    stopCh,     \* stopCh is closed
    term,       \* term.terminated, term.err, term.reason
    sendoff,    \* sendoff.obj, sendoff.off, sendoff.dod
    hlen,       \* len(s.header)
    stats,      \* stats.Num, stats.Size, stats.Offset
    wg,         \* counter of the wait group
    registered, \* the stream is in the collector's table
    sl,         \* position of the send loop
    cl,         \* position of the completion loop
    callers,    \* position of each caller, and the object it is sending
    nextId,     \* id of the next object that Send lets in
    ticks,      \* idle ticks posted so far
    sessions,   \* calls of doRequest: HTTP PUT requests issued
    stopCalled, \* a caller has called Stop
    stopInflight, \* id of the object in hand, if Stop was called during its payload
    enqLog,     \* the callers' objects (id, Size) in the order they entered SQ
    accAtFin,   \* per caller: the objects accepted when it called Fin
    cmplLog,    \* the calls of objDone, in order
    wire,       \* the frames Read has put in the request bodies: per object, the
                \* header bytes and the payload bytes emitted so far
    idleAt      \* (SpecIdle) per body that an idle tick ended: the number of
                \* objects that had entered SQ by then

\* the completion of one batch of objects (objDone)
VARIABLES
    odIn,       \* the batch: its size, whether it shares a ref-counter, whether
                \* the objects / the stream have a callback, whether they have readers
    odPrc,      \* the ref-counter (*obj.prc)
    odLog       \* per call of objDone: which callbacks ran, whether the reader was closed

odVars == <<odIn, odPrc, odLog>>

\* cold GET of one object of a cloud bucket, and its lock
VARIABLES
    lkW,        \* the task that holds the object's lock exclusively, or NoTask
    lkR,        \* the tasks that hold it shared
    tpc,        \* position of each task
    wf,         \* per task: its workfile exists
    unl,        \* per task: calls of Unlock(uname, true)
    badUnlock   \* a task has unlocked a lock it did not hold

coldVars == <<lkW, lkR, tpc, wf, unl, badUnlock>>

\* used capacity and out-of-space (t.capUsed)
VARIABLES
    capUsed,    \* capUsed.used, capUsed.oos
    capCfg,     \* config.LRU.HighWM, config.LRU.OOS
    capCall     \* the last call of AvgCapUsed: its argument, if any, and its results

capVars == <<capUsed, capCfg, capCall>>

\* requests for one object (objectHandler)
VARIABLES
    rq,         \* the request being handled: method, proxy id, bucket, evict
    ev,         \* what its handler did, in order
    objLocal    \* the object has local copies

\* restoreObjLBNeigh of one missing object
VARIABLES
    rs,         \* the call: rebalance and GFN flags, EC targets, position, retry, result
    tried       \* the strategies attempted so far, each with its outcome

\* t.gfn.global and its callers
VARIABLES
    now,        \* time.Now(), in units of 10 s
    ggfn,       \* gfn.lookup, gfn.stopDeadline
    gpc,        \* position of the goroutine that activates and of the one that
                \* asks, and the activation whose deadline the latter found passed
    gact,       \* when activate() was last called, -1 if never
    gret        \* the last return of active(): when, what, and gact then

\* t.gfn.local and the mountpath operations
VARIABLES
    lgfn,       \* gfn.lookup of the local GFN
    mp          \* per caller: the operation, its position, the flag it found

\* targetrunner.Run: registration with the primary
VARIABLES
    reg,        \* position, loop index i, ereg
    regLog      \* the results of t.register, in order

\* the housekeeper
VARIABLES
    hkNow,      \* the time
    hkReg,      \* per name: registered, the time it was registered or last fired,
                \* and the interval to wait from then
    hkLast      \* the last firing: name, time, and what it had to wait for

\* proxyrunner.uncoverMeta
VARIABLES
    disc        \* position, broadcasts so far, per node of the discovery Smap its
                \* server (handler, versions, calls, last answer), the result

\* Bck.MakeUname and ParseUname
VARIABLES
    un          \* position, the bucket and the object name, the uname, what
                \* ParseUname made of it

\* targetrunner.Prefetch
VARIABLES
    pf          \* position, the prefetch queue, and for each request taken from
                \* it: the request, whether its objects were fetched, the signals
                \* sent on its done channel

\* XactDemandBase: pending work and the idle tick
VARIABLES
    xd          \* pending, active, idle.likely, idle.ticks closed; the position of
                \* the housekeeping callback with the value it swapped out; the
                \* position of IncPending; what the last two callbacks observed

\* fsprungroup: mountpath events
VARIABLES
    mpe         \* the available and the disabled mountpaths, the target being
                \* registered (enabled), the last event with what it did, in order

restVars == <<rq, ev, objLocal, rs, tried, now, ggfn, gpc, gact, gret, lgfn, mp,
              reg, regLog, hkNow, hkReg, hkLast,
              disc,
              un,
              pf,
              xd,
              mpe>>

\* variables of the other parts of the target
nonStream == <<odVars, coldVars, capVars, restVars>>

streamVars == <<sessST, workCh, cmplCh, postCh, lastCh, stopCh, term, sendoff,
                hlen, stats, wg, registered, sl, cl, callers, nextId, ticks,
                sessions, stopCalled, stopInflight, enqLog, accAtFin, cmplLog,
                wire, idleAt>>

vars == <<streamVars, nonStream>>

\* ids of the objects for which Send returned nil
Accepted == {enqLog[i].id : i \in 1..Len(enqLog)}

\* ------------------------------------------------------------------------
\* NewStream
\* ------------------------------------------------------------------------
StreamInit ==
    /\ sessST = inactive
    /\ workCh = <<>>
    /\ cmplCh = <<>>
    /\ postCh = 0
    /\ lastCh = FALSE
    /\ stopCh = FALSE
    /\ term = [terminated |-> FALSE, err |-> ErrNil, reason |-> ""]
    /\ sendoff = [obj |-> NoObj, off |-> 0, dod |-> 0]
    /\ hlen = 0
    /\ stats = [Num |-> 0, Size |-> 0, Offset |-> 0]
    /\ wg = 2
    /\ registered = TRUE
    /\ sl = "top"
    /\ cl = "run"
    /\ callers = [p \in Procs |-> [pc |-> "idle", obj |-> NoObj, ret |-> "none"]]
    /\ nextId = 1
    /\ ticks = 0
    /\ sessions = 0
    /\ stopCalled = FALSE
    /\ stopInflight = 0
    /\ enqLog = <<>>
    /\ accAtFin = [p \in Procs |-> {}]
    /\ cmplLog = <<>>
    /\ wire = <<>>
    /\ idleAt = <<>>

\* the other parts of the target, before anything happens in them
NoTask == "none"
GetTasks == {"get1", "get2"}
PrefetchTasks == {"pf"}
ColdTasks == GetTasks \cup PrefetchTasks
Writers == {"wr"}
Tasks == ColdTasks \cup Writers

NoCall == [arg |-> <<>>, avg |-> 0, oos |-> FALSE, was |-> FALSE]

DoneOff ==
    /\ odIn = [n |-> 0, shared |-> FALSE, objCb |-> FALSE, strCb |-> FALSE]
    /\ odPrc = 0
    /\ odLog = <<>>

LockFree ==
    /\ lkW = NoTask
    /\ lkR = {}
    /\ wf = [t \in Tasks |-> FALSE]
    /\ unl = [t \in Tasks |-> 0]
    /\ badUnlock = FALSE

ColdOff ==
    /\ LockFree
    /\ tpc = [t \in Tasks |-> "off"]

CapZero ==
    /\ capUsed = [used |-> 0, oos |-> FALSE]
    /\ capCall = NoCall

CapOff ==
    /\ CapZero
    /\ capCfg = [HighWM |-> 0, OOS |-> 0]

MpCallers == {"m1", "m2"}

HkNames == {"foo", "bar"}

\* no request, no restore, the GFN flags off at time 0, Run not started,
\* nothing registered with the housekeeper
RestOff ==
    /\ rq = [method |-> "", pid |-> "", ais |-> FALSE, evict |-> FALSE,
             oos |-> FALSE, pc |-> "idle"]
    /\ ev = <<>>
    /\ objLocal = FALSE
    /\ rs = [localReb |-> FALSE, localGFN |-> FALSE, globalReb |-> FALSE,
             globalGFN |-> FALSE, enoughEC |-> FALSE,
             pc |-> "idle", retry |-> 0, result |-> ""]
    /\ tried = <<>>
    /\ now = 0
    /\ ggfn = [lookup |-> FALSE, stopDeadline |-> 0]
    /\ gpc = [activator |-> "idle", asker |-> "idle", seen |-> -1]
    /\ gact = -1
    /\ gret = [t |-> 0, ret |-> FALSE, act |-> -1, expired |-> FALSE]
    /\ lgfn = FALSE
    /\ mp = [c \in MpCallers |-> [act |-> "", pc |-> "idle", gfnActive |-> FALSE,
                                  ret |-> ""]]
    /\ reg = [pc |-> "init", i |-> 0, ereg |-> "nil"]
    /\ regLog = <<>>
    /\ hkNow = 0
    /\ hkReg = [n \in HkNames |-> [on |-> FALSE, base |-> 0, wait |-> 0,
                                   initial |-> 0, fired |-> FALSE]]
    /\ hkLast = [name |-> "", t |-> 0, base |-> 0, wait |-> 0, on |-> FALSE, seq |-> 0]
    /\ disc = [pc |-> "idle", round |-> 0, nodes |-> <<>>, smap |-> 0, bmd |-> 0]
    /\ un = [pc |-> "idle", bck |-> [Name |-> <<>>, Provider |-> <<>>, Ns |-> <<>>],
             objName |-> <<>>, uname |-> <<>>,
             got |-> [Name |-> <<>>, Provider |-> <<>>, Ns |-> <<>>, objName |-> <<>>]]
    /\ pf = [pc |-> "idle", queue |-> <<>>, taken |-> <<>>]
    /\ xd = [pending |-> 0, active |-> 0, likely |-> FALSE, ticks |-> FALSE,
             cb |-> "idle", swapped |-> 0, inc |-> "idle", obs |-> <<FALSE, FALSE>>]
    /\ mpe = [avail |-> 1..MaxMpaths, disabled |-> {}, enabled |-> TRUE,
              action |-> "", ev |-> <<>>]

\* what a step of part g leaves alone
Keep(g) ==
    /\ UNCHANGED <<streamVars, odVars, coldVars, capVars>>
    /\ g # "req" => UNCHANGED <<rq, ev, objLocal>>
    /\ g # "restore" => UNCHANGED <<rs, tried>>
    /\ g # "gfn" => UNCHANGED <<now, ggfn, gpc, gact, gret>>
    /\ g # "mp" => UNCHANGED <<lgfn, mp>>
    /\ g # "reg" => UNCHANGED <<reg, regLog>>
    /\ g # "hk" => UNCHANGED <<hkNow, hkReg, hkLast>>
    /\ g # "disc" => UNCHANGED <<disc>>
    /\ g # "uname" => UNCHANGED <<un>>
    /\ g # "prefetch" => UNCHANGED <<pf>>
    /\ g # "xact" => UNCHANGED <<xd>>
    /\ g # "mpevent" => UNCHANGED <<mpe>>

Init ==
    /\ StreamInit
    /\ RestOff
    /\ DoneOff
    /\ ColdOff
    /\ CapOff

\* ------------------------------------------------------------------------
\* objDone: refcount, callback, close the reader
\* ------------------------------------------------------------------------
objDone(log, obj, err, via) ==
    Append(log, [id |-> obj.id, Size |-> obj.Size, err |-> err, via |-> via,
                 closed |-> obj.Reader # "nil"])

\* ------------------------------------------------------------------------
\* Send, Fin, Stop
\* ------------------------------------------------------------------------
\* mutant: Send without the Terminated() check
SendEnter_nocheck(p, obj) ==
    callers' = [callers EXCEPT ![p] = [pc |-> "cas", obj |-> obj, ret |-> "none"]]

\* Send up to and including the Terminated() check
SendEnter(p, obj) ==
    /\ IF term.terminated
         THEN callers' = [callers EXCEPT ![p] =
                  [pc |-> IF IsLast(obj) THEN "finwait" ELSE "idle",
                   obj |-> NoObj, ret |-> "err"]]
         ELSE callers' = [callers EXCEPT ![p] =
                  [pc |-> "cas", obj |-> obj, ret |-> "none"]]

Send(p) ==
    /\ p = Sender
    /\ callers[p].pc = "idle"
    /\ nextId <= MaxObjs
    /\ (nextId - 1) + ticks < MaxInputs
    /\ \E in \in ObjInputs : SendEnter(p, [in EXCEPT !.id = nextId])
    /\ nextId' = IF callers'[p].pc = "cas" THEN nextId + 1 ELSE nextId
    /\ UNCHANGED <<sessST, workCh, cmplCh, postCh, lastCh, stopCh, term, sendoff,
                   hlen, stats, wg, registered, sl, cl, ticks, sessions,
                   stopCalled, stopInflight, enqLog, accAtFin, cmplLog>>
    /\ UNCHANGED <<wire, idleAt>>
    /\ UNCHANGED nonStream

\* s.sessST.CAS(inactive, active)
SendCAS(p) ==
    /\ callers[p].pc = "cas"
    /\ IF sessST = inactive
         THEN /\ sessST' = active
              /\ callers' = [callers EXCEPT ![p].pc = "post"]
         ELSE /\ sessST' = sessST
              /\ callers' = [callers EXCEPT ![p].pc = "enq"]
    /\ UNCHANGED <<workCh, cmplCh, postCh, lastCh, stopCh, term, sendoff, hlen,
                   stats, wg, registered, sl, cl, nextId, ticks,
                   sessions, stopCalled, stopInflight, enqLog, accAtFin, cmplLog>>
    /\ UNCHANGED <<wire, idleAt>>
    /\ UNCHANGED nonStream

\* s.postCh <- struct{}{}
SendPost(p) ==
    /\ callers[p].pc = "post"
    /\ postCh < 1
    /\ postCh' = postCh + 1
    /\ callers' = [callers EXCEPT ![p].pc = "enq"]
    /\ UNCHANGED <<sessST, workCh, cmplCh, lastCh, stopCh, term, sendoff, hlen,
                   stats, wg, registered, sl, cl, nextId, ticks,
                   sessions, stopCalled, stopInflight, enqLog, accAtFin, cmplLog>>
    /\ UNCHANGED <<wire, idleAt>>
    /\ UNCHANGED nonStream

\* mutant: a nil reader is left in place
SendEnq_nonop(p) ==
    /\ callers[p].pc = "enq"
    /\ Len(workCh) < Burst
    /\ LET obj == callers[p].obj
           o == obj
       IN /\ workCh' = Append(workCh, o)
          /\ enqLog' = IF obj.id # 0
                          THEN Append(enqLog, [id |-> obj.id, Size |-> obj.Size])
                          ELSE enqLog
          /\ callers' = [callers EXCEPT ![p] =
                 [pc |-> IF IsLast(obj) THEN "finwait" ELSE "idle",
                  obj |-> NoObj, ret |-> "nil"]]
    /\ UNCHANGED <<sessST, cmplCh, postCh, lastCh, stopCh, term, sendoff, hlen,
                   stats, wg, registered, sl, cl, nextId, ticks,
                   sessions, stopCalled, stopInflight, accAtFin, cmplLog>>
    /\ UNCHANGED <<wire, idleAt>>
    /\ UNCHANGED nonStream

\* s.workCh <- obj, with the no-op reader in place of a nil reader
SendEnq(p) ==
    /\ callers[p].pc = "enq"
    /\ Len(workCh) < Burst
    /\ LET obj == callers[p].obj
           o == IF obj.Reader = "nil" THEN [obj EXCEPT !.Reader = "nopRC"] ELSE obj
       IN /\ workCh' = Append(workCh, o)
          /\ enqLog' = IF obj.id # 0
                          THEN Append(enqLog, [id |-> obj.id, Size |-> obj.Size])
                          ELSE enqLog
          /\ callers' = [callers EXCEPT ![p] =
                 [pc |-> IF IsLast(obj) THEN "finwait" ELSE "idle",
                  obj |-> NoObj, ret |-> "nil"]]
    /\ UNCHANGED <<sessST, cmplCh, postCh, lastCh, stopCh, term, sendoff, hlen,
                   stats, wg, registered, sl, cl, nextId, ticks,
                   sessions, stopCalled, stopInflight, accAtFin, cmplLog>>
    /\ UNCHANGED <<wire, idleAt>>
    /\ UNCHANGED nonStream

\* Fin: Send of the last marker ...
Fin(p) ==
    /\ p = Finisher
    /\ callers[p].pc = "idle"
    /\ accAtFin' = [accAtFin EXCEPT ![p] = Accepted]
    /\ SendEnter(p, LastObj)
    /\ UNCHANGED <<sessST, workCh, cmplCh, postCh, lastCh, stopCh, term, sendoff,
                   hlen, stats, wg, registered, sl, cl, nextId, ticks, sessions,
                   stopCalled, stopInflight, enqLog, cmplLog>>
    /\ UNCHANGED <<wire, idleAt>>
    /\ UNCHANGED nonStream

\* ... and s.wg.Wait()
FinReturn(p) ==
    /\ callers[p].pc = "finwait"
    /\ wg = 0
    /\ callers' = [callers EXCEPT ![p].pc = "done"]
    /\ UNCHANGED <<sessST, workCh, cmplCh, postCh, lastCh, stopCh, term, sendoff,
                   hlen, stats, wg, registered, sl, cl, nextId, ticks,
                   sessions, stopCalled, stopInflight, enqLog, accAtFin, cmplLog>>
    /\ UNCHANGED <<wire, idleAt>>
    /\ UNCHANGED nonStream

Stop ==
    /\ ~stopCalled
    /\ stopCalled' = TRUE
    /\ stopInflight' = IF /\ sl \in {"req", "blocked"}
                          /\ sendoff.dod # 0
                          /\ ~IsHeaderOnly(sendoff.obj)
                         THEN sendoff.obj.id ELSE 0
    /\ stopCh' = TRUE
    /\ UNCHANGED <<sessST, workCh, cmplCh, postCh, lastCh, term, sendoff, hlen,
                   stats, wg, registered, sl, cl, callers, nextId, ticks,
                   sessions, enqLog, accAtFin, cmplLog>>
    /\ UNCHANGED <<wire, idleAt>>
    /\ UNCHANGED nonStream

\* ------------------------------------------------------------------------
\* sendLoop
\* ------------------------------------------------------------------------
\* head of the loop: if the session is active, doRequest
doRequest ==
    /\ sl = "top"
    /\ IF sessST = active
         THEN /\ sessions' = sessions + 1
              /\ sl' = "req"
         ELSE /\ sessions' = sessions
              /\ sl' = "next"
    /\ UNCHANGED <<sessST, workCh, cmplCh, postCh, lastCh, stopCh, term, sendoff,
                   hlen, stats, wg, registered, cl, callers, nextId,
                   ticks, stopCalled, stopInflight, enqLog, accAtFin, cmplLog>>
    /\ UNCHANGED <<wire, idleAt>>
    /\ UNCHANGED nonStream

isNextReq ==
    /\ sl = "next"
    /\ \/ /\ lastCh
          /\ term' = [term EXCEPT !.reason = endOfStream]
          /\ sl' = "term"
          /\ UNCHANGED <<sessST, postCh>>
       \/ /\ stopCh
          /\ term' = [term EXCEPT !.reason = reasonStopped]
          /\ sl' = "term"
          /\ UNCHANGED <<sessST, postCh>>
       \/ /\ postCh > 0
          /\ postCh' = postCh - 1
          /\ sessST' = active
          /\ sl' = "top"
          /\ term' = term
    /\ UNCHANGED <<workCh, cmplCh, lastCh, stopCh, sendoff, hlen, stats, wg,
                   registered, cl, callers, nextId, ticks, sessions,
                   stopCalled, stopInflight, enqLog, accAtFin, cmplLog>>
    /\ UNCHANGED <<wire, idleAt>>
    /\ UNCHANGED nonStream

\* terminate (under term.mu), then s.wg.Done()
terminate ==
    /\ sl = "term"
    /\ Len(cmplCh) < Burst
    /\ term' = [term EXCEPT !.terminated = TRUE]
    /\ stopCh' = TRUE
    /\ cmplCh' = Append(cmplCh, [obj |-> LastObj, err |-> term.err])
    /\ registered' = FALSE
    /\ wg' = wg - 1
    /\ sl' = IF term.reason # endOfStream THEN "wait" ELSE "exit"
    /\ UNCHANGED <<sessST, workCh, postCh, lastCh, sendoff, hlen, stats, cl,
                   callers, nextId, ticks, sessions, stopCalled, stopInflight, enqLog,
                   accAtFin, cmplLog>>
    /\ UNCHANGED <<wire, idleAt>>
    /\ UNCHANGED nonStream

\* first, wait for the SCQ to empty: s.wg.Wait();
\* mutant: the interrupted send is not completed
sendLoopInflight_skip ==
    /\ sl = "wait"
    /\ wg = 0
    /\ sl' = "drain"
    /\ stopInflight' = 0
    /\ UNCHANGED <<sessST, workCh, cmplCh, postCh, lastCh, stopCh, term, sendoff,
                   hlen, stats, wg, registered, cl, callers, nextId, ticks,
                   sessions, stopCalled, enqLog, accAtFin, cmplLog>>
    /\ UNCHANGED <<wire, idleAt>>
    /\ UNCHANGED nonStream

\* mutant: the interrupted send is completed without waiting for the SCQ
sendLoopInflight_nowait ==
    /\ sl = "wait"
    /\ cmplLog' = IF sendoff.obj.Reader # "nil"
                    THEN objDone(cmplLog, sendoff.obj, term.err, "inflight")
                    ELSE cmplLog
    /\ sl' = "drain"
    /\ stopInflight' = 0
    /\ UNCHANGED <<sessST, workCh, cmplCh, postCh, lastCh, stopCh, term, sendoff,
                   hlen, stats, wg, registered, cl, callers, nextId, ticks,
                   sessions, stopCalled, enqLog, accAtFin>>
    /\ UNCHANGED <<wire, idleAt>>
    /\ UNCHANGED nonStream

\* second, handle the last send that was interrupted
sendLoopInflight ==
    /\ sl = "wait"
    /\ wg = 0
    /\ cmplLog' = IF sendoff.obj.Reader # "nil"
                    THEN objDone(cmplLog, sendoff.obj, term.err, "inflight")
                    ELSE cmplLog
    /\ sl' = "drain"
    /\ stopInflight' = 0
    /\ UNCHANGED <<sessST, workCh, cmplCh, postCh, lastCh, stopCh, term, sendoff,
                   hlen, stats, wg, registered, cl, callers, nextId,
                   ticks, sessions, stopCalled, enqLog, accAtFin>>
    /\ UNCHANGED <<wire, idleAt>>
    /\ UNCHANGED nonStream

\* mutant: the pending SQ is completed from its tail
sendLoopDrain_lifo ==
    /\ sl = "drain"
    /\ workCh # <<>>
    /\ cmplLog' = objDone(cmplLog, workCh[Len(workCh)], term.err, "sq")
    /\ workCh' = SubSeq(workCh, 1, Len(workCh) - 1)
    /\ UNCHANGED <<sessST, cmplCh, postCh, lastCh, stopCh, term, sendoff, hlen,
                   stats, wg, registered, sl, cl, callers, nextId, ticks,
                   sessions, stopCalled, stopInflight, enqLog, accAtFin>>
    /\ UNCHANGED <<wire, idleAt>>
    /\ UNCHANGED nonStream

\* finally, handle pending SQ: for obj := range s.workCh
sendLoopDrain ==
    /\ sl = "drain"
    /\ workCh # <<>>
    /\ cmplLog' = objDone(cmplLog, Head(workCh), term.err, "sq")
    /\ workCh' = Tail(workCh)
    /\ UNCHANGED <<sessST, cmplCh, postCh, lastCh, stopCh, term, sendoff, hlen,
                   stats, wg, registered, sl, cl, callers, nextId, ticks,
                   sessions, stopCalled, stopInflight, enqLog, accAtFin>>
    /\ UNCHANGED <<wire, idleAt>>
    /\ UNCHANGED nonStream

\* ------------------------------------------------------------------------
\* cmplLoop
\* ------------------------------------------------------------------------
cmplLoop ==
    /\ cl = "run"
    /\ cmplCh # <<>>
    /\ cmplCh' = Tail(cmplCh)
    /\ LET c == Head(cmplCh)
       IN IF IsLast(c.obj)
            THEN /\ cl' = "done"
                 /\ wg' = wg - 1
                 /\ cmplLog' = cmplLog
            ELSE /\ cmplLog' = objDone(cmplLog, c.obj, c.err, "scq")
                 /\ UNCHANGED <<cl, wg>>
    /\ UNCHANGED <<sessST, workCh, postCh, lastCh, stopCh, term, sendoff, hlen,
                   stats, registered, sl, callers, nextId, ticks,
                   sessions, stopCalled, stopInflight, enqLog, accAtFin>>
    /\ UNCHANGED <<wire, idleAt>>
    /\ UNCHANGED nonStream

\* ------------------------------------------------------------------------
\* Stream.Read, called by the HTTP client for the body of the request
\* ------------------------------------------------------------------------
\* mutant: a header-only object is not counted
eoObj_nocount(so, err) ==
    LET obj == so.obj
        err2 == IF err = ErrNil /\ so.off # obj.Size THEN ErrOffset ELSE err
    IN /\ Len(cmplCh) < Burst
       /\ stats' = IF err2 = ErrNil /\ obj.Size > 0
                     THEN [Num |-> stats.Num + 1,
                           Size |-> stats.Size + obj.Size,
                           Offset |-> stats.Offset + so.off]
                     ELSE [stats EXCEPT !.Offset = @ + so.off]
       /\ cmplCh' = Append(cmplCh, [obj |-> obj, err |-> err2])
       /\ sendoff' = [obj |-> NoObj, off |-> 0, dod |-> 0]

\* end-of-object: stats, and the next completion => SCQ
eoObj(so, err) ==
    LET obj == so.obj
        err2 == IF err = ErrNil /\ so.off # obj.Size THEN ErrOffset ELSE err
    IN /\ Len(cmplCh) < Burst
       /\ stats' = IF err2 = ErrNil
                     THEN [Num |-> stats.Num + 1,
                           Size |-> stats.Size + obj.Size,
                           Offset |-> stats.Offset + so.off]
                     ELSE [stats EXCEPT !.Offset = @ + so.off]
       /\ cmplCh' = Append(cmplCh, [obj |-> obj, err |-> err2])
       /\ sendoff' = [obj |-> NoObj, off |-> 0, dod |-> 0]

\* mutant: every Read copies the header from its first byte
sendHdr_restart(so, hl, bl) ==
    LET n == Min(bl, hl)
        off1 == so.off + n
    IN /\ wire' = IF so.off = 0
                    THEN Append(wire, [id |-> so.obj.id, Size |-> so.obj.Size,
                                       hdr |-> n, data |-> 0])
                    ELSE [wire EXCEPT ![Len(wire)].hdr = @ + n]
       /\ IF off1 >= hl
         THEN /\ stats' = [stats EXCEPT !.Offset = @ + off1]
              /\ sendoff' = [so EXCEPT !.dod = off1, !.off = 0]
              /\ IF IsLast(so.obj)
                   THEN lastCh' = TRUE /\ sl' = "next"
                   ELSE lastCh' = lastCh /\ sl' = "req"
         ELSE /\ stats' = stats
              /\ sendoff' = [so EXCEPT !.off = off1]
              /\ lastCh' = lastCh
              /\ sl' = "req"

\* sendHdr into a buffer of bl bytes; hl is len(s.header); the body ends
\* (io.EOF) with the header of the last marker
sendHdr(so, hl, bl) ==
    LET n == Min(bl, hl - so.off)
        off1 == so.off + n
    IN /\ wire' = IF so.off = 0
                    THEN Append(wire, [id |-> so.obj.id, Size |-> so.obj.Size,
                                       hdr |-> n, data |-> 0])
                    ELSE [wire EXCEPT ![Len(wire)].hdr = @ + n]
       /\ IF off1 >= hl
         THEN /\ stats' = [stats EXCEPT !.Offset = @ + off1]
              /\ sendoff' = [so EXCEPT !.dod = off1, !.off = 0]
              /\ IF IsLast(so.obj)
                   THEN lastCh' = TRUE /\ sl' = "next"
                   ELSE lastCh' = lastCh /\ sl' = "req"
         ELSE /\ stats' = stats
              /\ sendoff' = [so EXCEPT !.off = off1]
              /\ lastCh' = lastCh
              /\ sl' = "req"

\* Read, fast path: the header of the object in hand is not sent yet
ReadHdr ==
    /\ sl = "req"
    /\ sendoff.obj.Reader # "nil"
    /\ sendoff.dod = 0
    /\ \E bl \in 1..MaxBuf : sendHdr(sendoff, hlen, bl)
    /\ UNCHANGED <<sessST, workCh, cmplCh, postCh, stopCh, term, hlen, wg,
                   registered, cl, callers, nextId, ticks, sessions, stopCalled, stopInflight,
                   enqLog, accAtFin, cmplLog>>
    /\ UNCHANGED idleAt
    /\ UNCHANGED nonStream

\* Read, fast path: sendData. The object's reader fills the buffer with some
\* bytes (it may hold more than the declared size), reports io.EOF, fails,
\* or does not return.
ReadData ==
    /\ sl = "req"
    /\ sendoff.obj.Reader # "nil"
    /\ sendoff.dod # 0
    /\ ~IsHeaderOnly(sendoff.obj)
    /\ LET obj == sendoff.obj
       IN \/ \E n \in 1..Min(MaxBuf, obj.Size - sendoff.off + 1) :
               LET off1 == sendoff.off + n
               IN /\ IF off1 >= obj.Size
                       THEN eoObj([sendoff EXCEPT !.off = off1], ErrNil)
                       ELSE /\ sendoff' = [sendoff EXCEPT !.off = off1]
                            /\ UNCHANGED <<stats, cmplCh>>
                  /\ wire' = [wire EXCEPT ![Len(wire)].data = @ + n]
                  /\ UNCHANGED <<term, sl>>
          \/ \* io.EOF: read shorter than expected, the request fails
             /\ sendoff.off < obj.Size
             /\ term' = [term EXCEPT !.reason = reasonError, !.err = ErrShort]
             /\ sl' = "term"
             /\ UNCHANGED <<sendoff, stats, cmplCh, wire>>
          \/ \* the reader fails: end-of-object with its error, and the
             \* request fails with it
             /\ eoObj(sendoff, ErrRead)
             /\ term' = [term EXCEPT !.reason = reasonError, !.err = ErrRead]
             /\ sl' = "term"
             /\ wire' = wire
          \/ \* the reader blocks
             /\ sl' = "blocked"
             /\ UNCHANGED <<term, sendoff, stats, cmplCh, wire>>
    /\ stopInflight' = IF sendoff'.obj.id = stopInflight THEN stopInflight ELSE 0
    /\ UNCHANGED <<sessST, workCh, postCh, lastCh, stopCh, hlen, wg, registered,
                   cl, callers, nextId, ticks, sessions, stopCalled, enqLog,
                   accAtFin, cmplLog>>
    /\ UNCHANGED idleAt
    /\ UNCHANGED nonStream

\* Read, fast path: the object in hand is header-only and its header is sent
ReadHdrOnly ==
    /\ sl = "req"
    /\ sendoff.obj.Reader # "nil"
    /\ sendoff.dod # 0
    /\ IsHeaderOnly(sendoff.obj)
    /\ IF ~IsLast(sendoff.obj)
         THEN /\ eoObj(sendoff, ErrNil)
              /\ sl' = "sel"
         ELSE \* io.EOF
              /\ sl' = "next"
              /\ UNCHANGED <<stats, cmplCh, sendoff>>
    /\ UNCHANGED <<sessST, workCh, postCh, lastCh, stopCh, term, hlen, wg,
                   registered, cl, callers, nextId, ticks, sessions, stopCalled, stopInflight,
                   enqLog, accAtFin, cmplLog>>
    /\ UNCHANGED <<wire, idleAt>>
    /\ UNCHANGED nonStream

AtSelect == sl = "sel" \/ (sl = "req" /\ sendoff.obj.Reader = "nil")

\* Read, select: next object OR idle tick.
\* mutant: an idle tick never closes the session
ReadNextStep_noclose ==
    /\ AtSelect
    /\ workCh # <<>>
    /\ workCh' = Tail(workCh)
    /\ LET o == Head(workCh)
       IN IF IsIdleTick(o)
            THEN /\ sendoff' = [sendoff EXCEPT !.obj = o]
                 /\ sl' = "sel"
                 /\ UNCHANGED <<hlen, stats, lastCh, wire>>
            ELSE /\ hlen' = insHeader(o)
                 /\ \E bl \in 1..MaxBuf :
                      sendHdr([sendoff EXCEPT !.obj = o], hlen', bl)
    /\ UNCHANGED <<sessST, cmplCh, postCh, stopCh, term, wg, registered, cl,
                   callers, nextId, ticks, sessions, stopCalled, stopInflight, enqLog,
                   accAtFin, cmplLog>>

\* mutant: an idle tick closes the session also when SQ is not empty
ReadNextStep_close ==
    /\ AtSelect
    /\ workCh # <<>>
    /\ workCh' = Tail(workCh)
    /\ LET o == Head(workCh)
       IN IF IsIdleTick(o)
            THEN /\ sendoff' = [sendoff EXCEPT !.obj = o]
                 /\ sl' = "next"
                 /\ UNCHANGED <<hlen, stats, lastCh, wire>>
            ELSE /\ hlen' = insHeader(o)
                 /\ \E bl \in 1..MaxBuf :
                      sendHdr([sendoff EXCEPT !.obj = o], hlen', bl)
    /\ UNCHANGED <<sessST, cmplCh, postCh, stopCh, term, wg, registered, cl,
                   callers, nextId, ticks, sessions, stopCalled, stopInflight, enqLog,
                   accAtFin, cmplLog>>

\* mutant: on an idle tick with SQ empty a last-marker frame is emitted
\* before the body is closed
ReadNextStep_lastframe ==
    /\ AtSelect
    /\ workCh # <<>>
    /\ workCh' = Tail(workCh)
    /\ LET o == Head(workCh)
       IN IF IsIdleTick(o)
            THEN /\ sendoff' = [sendoff EXCEPT !.obj = o]
                 /\ sl' = IF Len(workCh') > 0 THEN "sel" ELSE "next"
                 /\ wire' = IF Len(workCh') > 0
                               THEN wire
                               ELSE Append(wire, [id |-> 0, Size |-> lastMarker,
                                                  hdr |-> HdrLen, data |-> 0])
                 /\ UNCHANGED <<hlen, stats, lastCh>>
            ELSE /\ hlen' = insHeader(o)
                 /\ \E bl \in 1..MaxBuf :
                      sendHdr([sendoff EXCEPT !.obj = o], hlen', bl)
    /\ UNCHANGED <<sessST, cmplCh, postCh, stopCh, term, wg, registered, cl,
                   callers, nextId, ticks, sessions, stopCalled, stopInflight, enqLog,
                   accAtFin, cmplLog>>

\* case s.sendoff.obj = <-s.workCh: an idle tick is dropped if SQ is not
\* empty, and ends the body (deactivate: io.EOF) otherwise; of any other
\* object the header is laid out and sent
ReadNextStep ==
    /\ AtSelect
    /\ workCh # <<>>
    /\ workCh' = Tail(workCh)
    /\ LET o == Head(workCh)
       IN IF IsIdleTick(o)
            THEN /\ sendoff' = [sendoff EXCEPT !.obj = o]
                 /\ sl' = IF Len(workCh') > 0 THEN "sel" ELSE "next"
                 /\ UNCHANGED <<hlen, stats, lastCh, wire>>
            ELSE /\ hlen' = insHeader(o)
                 /\ \E bl \in 1..MaxBuf :
                      sendHdr([sendoff EXCEPT !.obj = o], hlen', bl)
    /\ UNCHANGED <<sessST, cmplCh, postCh, stopCh, term, wg, registered, cl,
                   callers, nextId, ticks, sessions, stopCalled, stopInflight, enqLog,
                   accAtFin, cmplLog>>

ReadNext ==
    /\ ReadNextStep
    /\ UNCHANGED idleAt
    /\ UNCHANGED nonStream

\* the same step, observed: idleAt records each body that an idle tick ends
IdleReadNext ==
    /\ ReadNextStep
    /\ idleAt' = IF IsIdleTick(Head(workCh)) /\ Len(workCh) = 1
                    THEN Append(idleAt, Len(enqLog))
                    ELSE idleAt
    /\ UNCHANGED nonStream

\* Read, select: stopped
ReadStopped ==
    /\ AtSelect
    /\ stopCh
    /\ sl' = "next"
    /\ UNCHANGED <<sessST, workCh, cmplCh, postCh, lastCh, stopCh, term, sendoff,
                   hlen, stats, wg, registered, cl, callers, nextId, ticks,
                   sessions, stopCalled, stopInflight, enqLog, accAtFin, cmplLog>>
    /\ UNCHANGED <<wire, idleAt>>
    /\ UNCHANGED nonStream

\* the HTTP request fails: doRequest returns an error
doRequestError ==
    /\ sl \in {"req", "sel", "blocked"}
    /\ term' = [term EXCEPT !.reason = reasonError, !.err = ErrIO]
    /\ sl' = "term"
    /\ UNCHANGED <<sessST, workCh, cmplCh, postCh, lastCh, stopCh, sendoff, hlen,
                   stats, wg, registered, cl, callers, nextId, ticks,
                   sessions, stopCalled, stopInflight, enqLog, accAtFin, cmplLog>>
    /\ UNCHANGED <<wire, idleAt>>
    /\ UNCHANGED nonStream

\* ------------------------------------------------------------------------
\* stream collector: one sweep over this stream
\* ------------------------------------------------------------------------
collectorIdle ==
    /\ registered
    /\ ticks < MaxTicks
    /\ (nextId - 1) + ticks < MaxInputs
    /\ workCh = <<>>
    /\ sessST = active
    /\ sessST' = inactive
    /\ workCh' = Append(workCh, TickObj)
    /\ ticks' = ticks + 1
    /\ UNCHANGED <<cmplCh, postCh, lastCh, stopCh, term, sendoff, hlen, stats,
                   wg, registered, sl, cl, callers, nextId, sessions,
                   stopCalled, stopInflight, enqLog, accAtFin, cmplLog>>
    /\ UNCHANGED <<wire, idleAt>>
    /\ UNCHANGED nonStream

\* ------------------------------------------------------------------------
Next ==
    \/ \E p \in Procs : Send(p)
    \/ \E p \in Procs : SendCAS(p)
    \/ \E p \in Procs : SendPost(p)
    \/ \E p \in Procs : SendEnq(p)
    \/ \E p \in Procs : Fin(p)
    \/ \E p \in Procs : FinReturn(p)
    \/ Stop
    \/ doRequest
    \/ ReadHdr
    \/ ReadData
    \/ ReadHdrOnly
    \/ ReadNext
    \/ ReadStopped
    \/ doRequestError
    \/ isNextReq
    \/ terminate
    \/ sendLoopInflight
    \/ sendLoopDrain
    \/ cmplLoop
    \/ collectorIdle

Spec == Init /\ [][Next]_vars

\* The stream on which nobody calls Fin or Stop, with the bodies that idle
\* ticks end recorded in idleAt.
NextIdle ==
    \/ \E p \in Procs : Send(p)
    \/ \E p \in Procs : SendCAS(p)
    \/ \E p \in Procs : SendPost(p)
    \/ \E p \in Procs : SendEnq(p)
    \/ doRequest
    \/ ReadHdr
    \/ ReadData
    \/ ReadHdrOnly
    \/ IdleReadNext
    \/ doRequestError
    \/ isNextReq
    \/ terminate
    \/ sendLoopInflight
    \/ sendLoopDrain
    \/ cmplLoop
    \/ collectorIdle

SpecIdle == Init /\ [][NextIdle]_vars

\* ------------------------------------------------------------------------
\* objDone on a batch of objects that may share one ref-counter
\* ------------------------------------------------------------------------
\* what one call of objDone does with the counter, the callbacks and the reader
objDoneCb_skipclose(prc, hasPrc, hasObjCb, hasStrCb, hasReader) ==
    LET rc == IF hasPrc THEN prc - 1 ELSE 0
    IN  [prc    |-> IF hasPrc THEN prc - 1 ELSE prc,
         rc     |-> rc,
         objCb  |-> rc = 0 /\ hasObjCb,
         strCb  |-> rc = 0 /\ ~hasObjCb /\ hasStrCb,
         closed |-> rc = 0 /\ hasReader]

objDoneCb(prc, hasPrc, hasObjCb, hasStrCb, hasReader) ==
    LET rc == IF hasPrc THEN prc - 1 ELSE 0
    IN  [prc    |-> IF hasPrc THEN prc - 1 ELSE prc,
         rc     |-> rc,
         objCb  |-> rc = 0 /\ hasObjCb,
         strCb  |-> rc = 0 /\ ~hasObjCb /\ hasStrCb,
         closed |-> hasReader]

InitDone ==
    /\ StreamInit
    /\ RestOff
    /\ ColdOff
    /\ CapOff
    /\ odIn \in [n : 1..MaxBatch, shared : BOOLEAN, objCb : BOOLEAN, strCb : BOOLEAN]
    /\ odPrc = IF odIn.shared THEN odIn.n ELSE 0
    /\ odLog = <<>>

\* the next object of the batch completes; it has a reader or has none
objDoneCall ==
    /\ Len(odLog) < odIn.n
    /\ \E rd \in BOOLEAN :
         LET r == objDoneCb(odPrc, odIn.shared, odIn.objCb, odIn.strCb, rd)
         IN  /\ r.rc >= 0
             /\ odPrc' = r.prc
             /\ odLog' = Append(odLog, [rd |-> rd, rc |-> r.rc, objCb |-> r.objCb,
                                        strCb |-> r.strCb, closed |-> r.closed])
    /\ UNCHANGED <<odIn, coldVars, capVars, streamVars, restVars>>

SpecDone == InitDone /\ [][objDoneCall]_vars

\* ------------------------------------------------------------------------
\* cold GET, prefetch and delete of one object
\* ------------------------------------------------------------------------
\* cluster.ObjectLocker, for one uname
CanLock(excl) == lkW = NoTask /\ (excl => lkR = {})

LockerLock(t, excl) ==
    /\ lkW' = IF excl THEN t ELSE lkW
    /\ lkR' = IF excl THEN lkR ELSE lkR \cup {t}
    /\ UNCHANGED <<unl, badUnlock>>

LockerUnlock(t, excl) ==
    /\ lkW' = IF excl /\ lkW = t THEN NoTask ELSE lkW
    /\ lkR' = IF excl THEN lkR ELSE lkR \ {t}
    /\ unl' = IF excl THEN [unl EXCEPT ![t] = @ + 1] ELSE unl
    /\ badUnlock' = (badUnlock \/ IF excl THEN lkW # t ELSE t \notin lkR)

LockerDowngrade(t) ==
    /\ lkW' = IF lkW = t THEN NoTask ELSE lkW
    /\ lkR' = IF lkW = t THEN lkR \cup {t} ELSE lkR
    /\ badUnlock' = (badUnlock \/ lkW # t)
    /\ UNCHANGED unl

InitCold ==
    /\ StreamInit
    /\ RestOff
    /\ DoneOff
    /\ CapOff
    /\ LockFree
    /\ tpc = [t \in Tasks |-> "idle"]

\* GetCold takes the lock: a prefetch tries and skips, a GET waits
GetColdLock(t) ==
    /\ tpc[t] = "idle"
    /\ IF t \in PrefetchTasks
       THEN IF CanLock(TRUE)
            THEN /\ LockerLock(t, TRUE)
                 /\ tpc' = [tpc EXCEPT ![t] = "getobj"]
            ELSE /\ tpc' = [tpc EXCEPT ![t] = "ret-skip"]
                 /\ UNCHANGED <<lkW, lkR, unl, badUnlock>>
       ELSE /\ CanLock(TRUE)
            /\ LockerLock(t, TRUE)
            /\ tpc' = [tpc EXCEPT ![t] = "getobj"]
    /\ UNCHANGED <<wf, odVars, capVars, streamVars, restVars>>

\* getobj downloads to the workfile; when it fails it leaves no workfile and
\* GetCold unlocks and returns
GetColdGetobj_deferred(t) ==
    /\ tpc[t] = "getobj"
    /\ \/ /\ wf' = [wf EXCEPT ![t] = TRUE]
          /\ tpc' = [tpc EXCEPT ![t] = "mv"]
          /\ UNCHANGED <<lkW, lkR, unl, badUnlock>>
       \/ /\ lkW' = IF lkW = t THEN NoTask ELSE lkW
          /\ unl' = [unl EXCEPT ![t] = @ + 2]
          /\ badUnlock' = TRUE
          /\ tpc' = [tpc EXCEPT ![t] = "ret-err"]
          /\ UNCHANGED <<wf, lkR>>
    /\ UNCHANGED <<odVars, capVars, streamVars, restVars>>

GetColdGetobj(t) ==
    /\ tpc[t] = "getobj"
    /\ \/ /\ wf' = [wf EXCEPT ![t] = TRUE]
          /\ tpc' = [tpc EXCEPT ![t] = "mv"]
          /\ UNCHANGED <<lkW, lkR, unl, badUnlock>>
       \/ /\ LockerUnlock(t, TRUE)
          /\ tpc' = [tpc EXCEPT ![t] = "ret-err"]
          /\ UNCHANGED wf
    /\ UNCHANGED <<odVars, capVars, streamVars, restVars>>

\* the deferred function of GetCold, errstr being set
GetColdDefer(t) ==
    /\ LockerUnlock(t, TRUE)
    /\ wf' = [wf EXCEPT ![t] = FALSE]
    /\ tpc' = [tpc EXCEPT ![t] = "ret-err"]

\* MvFile renames the workfile to the object
GetColdMv(t) ==
    /\ tpc[t] = "mv"
    /\ \/ /\ wf' = [wf EXCEPT ![t] = FALSE]
          /\ tpc' = [tpc EXCEPT ![t] = "persist"]
          /\ UNCHANGED <<lkW, lkR, unl, badUnlock>>
       \/ GetColdDefer(t)
    /\ UNCHANGED <<odVars, capVars, streamVars, restVars>>

GetColdPersist(t) ==
    /\ tpc[t] = "persist"
    /\ \/ /\ tpc' = [tpc EXCEPT ![t] = "finish"]
          /\ UNCHANGED <<lkW, lkR, unl, badUnlock, wf>>
       \/ GetColdDefer(t)
    /\ UNCHANGED <<odVars, capVars, streamVars, restVars>>

\* GET - downgrade and keep the lock, PREFETCH - unlock
GetColdFinish_release(t) ==
    /\ tpc[t] = "finish"
    /\ IF t \in PrefetchTasks
       THEN /\ LockerUnlock(t, TRUE)
            /\ tpc' = [tpc EXCEPT ![t] = "ret-pf"]
       ELSE /\ lkW' = IF lkW = t THEN NoTask ELSE lkW
            /\ UNCHANGED <<lkR, unl, badUnlock>>
            /\ tpc' = [tpc EXCEPT ![t] = "ret-ok"]
    /\ UNCHANGED <<wf, odVars, capVars, streamVars, restVars>>

GetColdFinish(t) ==
    /\ tpc[t] = "finish"
    /\ IF t \in PrefetchTasks
       THEN /\ LockerUnlock(t, TRUE)
            /\ tpc' = [tpc EXCEPT ![t] = "ret-pf"]
       ELSE /\ LockerDowngrade(t)
            /\ tpc' = [tpc EXCEPT ![t] = "ret-ok"]
    /\ UNCHANGED <<wf, odVars, capVars, streamVars, restVars>>

\* the caller of a successful GetCold serves the object and unlocks
Serve(t) ==
    /\ tpc[t] = "ret-ok"
    /\ LockerUnlock(t, FALSE)
    /\ tpc' = [tpc EXCEPT ![t] = "served"]
    /\ UNCHANGED <<wf, odVars, capVars, streamVars, restVars>>

\* objDelete: Lock(uname, true) ... defer Unlock(uname, true)
objDeleteLock(t) ==
    /\ tpc[t] = "idle"
    /\ CanLock(TRUE)
    /\ LockerLock(t, TRUE)
    /\ tpc' = [tpc EXCEPT ![t] = "wlocked"]
    /\ UNCHANGED <<wf, odVars, capVars, streamVars, restVars>>

objDeleteUnlock(t) ==
    /\ tpc[t] = "wlocked"
    /\ LockerUnlock(t, TRUE)
    /\ tpc' = [tpc EXCEPT ![t] = "done"]
    /\ UNCHANGED <<wf, odVars, capVars, streamVars, restVars>>

SpecCold == InitCold /\ [][\/ \E t \in ColdTasks : GetColdLock(t)
                           \/ \E t \in ColdTasks : GetColdGetobj(t)
                           \/ \E t \in ColdTasks : GetColdMv(t)
                           \/ \E t \in ColdTasks : GetColdPersist(t)
                           \/ \E t \in ColdTasks : GetColdFinish(t)
                           \/ \E t \in GetTasks : Serve(t)
                           \/ \E t \in Writers : objDeleteLock(t)
                           \/ \E t \in Writers : objDeleteUnlock(t)]_vars

\* ------------------------------------------------------------------------
\* AvgCapUsed
\* ------------------------------------------------------------------------
\* the new capUsed
AvgCapUsed_nohyst(cu, config, used) ==
    IF Len(used) > 0
    THEN [used |-> used[1], oos |-> used[1] > config.OOS]
    ELSE cu

AvgCapUsed(cu, config, used) ==
    IF Len(used) > 0
    THEN [used |-> used[1],
          oos  |-> IF cu.oos /\ used[1] < config.HighWM THEN FALSE
                   ELSE IF ~cu.oos /\ used[1] > config.OOS THEN TRUE
                   ELSE cu.oos]
    ELSE cu

InitCap ==
    /\ StreamInit
    /\ RestOff
    /\ DoneOff
    /\ ColdOff
    /\ CapZero
    /\ capCfg \in {c \in [HighWM : 1..MaxCap, OOS : 1..MaxCap] : c.HighWM <= c.OOS}

AvgCapUsedCall(used) ==
    /\ capUsed' = AvgCapUsed(capUsed, capCfg, used)
    /\ capCall' = [arg |-> used, avg |-> capUsed'.used, oos |-> capUsed'.oos,
                   was |-> capUsed.oos]
    /\ UNCHANGED <<capCfg, odVars, coldVars, streamVars, restVars>>

\* a capacity update
AvgCapUsedReport == \E u \in 0..MaxCap : AvgCapUsedCall(<<u>>)

\* a call with no value
AvgCapUsedQuery == AvgCapUsedCall(<<>>)

SpecCap == InitCap /\ [][\/ AvgCapUsedReport
                         \/ AvgCapUsedQuery]_vars

\* ------------------------------------------------------------------------
\* objectHandler: GET, PUT, DELETE, HEAD of one object
\* ------------------------------------------------------------------------
\* "p1" is the gateway of the current Smap
verifyProxyRedirection(pid) == pid # "" /\ pid \in {"p1"}

\* putObject: workfile, exclusive lock, rename, persist
putObjectEv ==
    { <<"workfile", "reject">>,
      <<"workfile", "lock-x", "rename", "persist", "unlock-x", "served">> }

\* the runs of httpobjput
httpobjputEv_nooos(r, oos) ==
    { <<"reject">> } \cup
    IF ~verifyProxyRedirection(r.pid) THEN { <<"reject">> }
    ELSE { <<"reject">>, <<"lom", "reject">> } \cup
         { <<"lom">> \o (IF r.ais THEN <<"load">> ELSE <<>>) \o e : e \in putObjectEv }

httpobjputEv(r, oos) ==
    { <<"reject">> } \cup
    IF ~verifyProxyRedirection(r.pid) THEN { <<"reject">> }
    ELSE IF oos THEN { <<"oos", "reject">> }
    ELSE { <<"reject">>, <<"lom", "reject">> } \cup
         { <<"lom">> \o (IF r.ais THEN <<"load">> ELSE <<>>) \o e : e \in putObjectEv }

\* getObject: shared lock, load, serve the local copy or restore / cold GET
getObjectEv(r, exists) ==
    { <<"lock-r", "load", "unlock-r", "reject">>,
      <<"lock-r", "load", "served", "unlock-r">> } \cup
    IF exists THEN {}
    ELSE { <<"lock-r", "load", "unlock-r", "lock-x", "workfile", "rename",
             "persist", "downgrade", "served", "unlock-r">> }

objDeleteEv_evictcloud(r, exists) ==
    LET delFromCloud == ~r.ais
        cloud == IF delFromCloud THEN { <<"cloudDel">>, <<"cloudDel-failed">> }
                 ELSE { <<>> }
        local == IF ~exists THEN { <<>> }
                 ELSE { <<"localDel-failed">> } \cup
                      { IF r.evict /\ r.ais THEN <<"localDel", "panic">>
                        ELSE <<"localDel">> }
    IN  { <<"lock-x", "load-failed", "unlock-x">> } \cup
        { <<"lock-x", "load">> \o c \o l \o <<"unlock-x">> : c \in cloud, l \in local }

\* the runs of objDelete: Load, the cloud delete, the removal of the local
\* copies may each fail; the deferred Unlock runs on every path
objDeleteEv(r, exists) ==
    LET delFromCloud == ~r.ais /\ ~r.evict
        cloud == IF delFromCloud THEN { <<"cloudDel">>, <<"cloudDel-failed">> }
                 ELSE { <<>> }
        local == IF ~exists THEN { <<>> }
                 ELSE { <<"localDel-failed">> } \cup
                      { IF r.evict /\ r.ais THEN <<"localDel", "panic">>
                        ELSE <<"localDel">> }
    IN  { <<"lock-x", "load-failed", "unlock-x">> } \cup
        { <<"lock-x", "load">> \o c \o l \o <<"unlock-x">> : c \in cloud, l \in local }

Has(e, x) == \E i \in DOMAIN e : e[i] = x

\* a request arrives
objectHandler ==
    /\ rq.pc \in {"idle", "done"}
    /\ \E m \in {"GET", "PUT", "DELETE", "HEAD"}, pid \in {"", "p1", "px"},
          ais \in BOOLEAN, evict \in BOOLEAN :
         /\ evict => m = "DELETE"
         /\ rq' = [method |-> m, pid |-> pid, ais |-> ais, evict |-> evict,
                   oos |-> FALSE, pc |-> "handler"]
    /\ ev' = <<>>
    /\ UNCHANGED objLocal
    /\ Keep("req")

\* the handler has run as e
Respond(e) ==
    /\ ev' = e
    /\ objLocal' = IF Has(e, "localDel") THEN FALSE
                   ELSE IF Has(e, "rename") THEN TRUE
                   ELSE objLocal
    /\ rq' = [rq EXCEPT !.pc = "done", !.oos = capUsed.oos]

httpobjget ==
    /\ rq.pc = "handler" /\ rq.method = "GET"
    /\ \E e \in { <<"reject">>, <<"lom", "reject">> } \cup
                { <<"lom">> \o g : g \in getObjectEv(rq, objLocal) } : Respond(e)
    /\ Keep("req")

httpobjput ==
    /\ rq.pc = "handler" /\ rq.method = "PUT"
    /\ \E e \in httpobjputEv(rq, AvgCapUsed(capUsed, capCfg, <<>>).oos) : Respond(e)
    /\ Keep("req")

\* objDelete's error is reported; else EC cleanup
httpobjdelete ==
    /\ rq.pc = "handler" /\ rq.method = "DELETE"
    /\ \E e \in { <<"reject">>, <<"lom", "reject">> } \cup
                { <<"lom">> \o d \o
                    (IF \E x \in {"load-failed", "cloudDel-failed", "localDel-failed", "panic"} :
                           Has(d, x)
                     THEN <<"reject">> ELSE <<"eccleanup", "served">>) :
                  d \in objDeleteEv(rq, objLocal) } : Respond(e)
    /\ Keep("req")

httpobjhead ==
    /\ rq.pc = "handler" /\ rq.method = "HEAD"
    /\ \E e \in { <<"reject">>,
                  <<"lom", "lock-r", "load-failed", "reject", "unlock-r">>,
                  <<"lom", "lock-r", "load", "reject", "unlock-r">> } \cup
                (IF objLocal \/ ~rq.ais
                 THEN { <<"lom", "lock-r", "load", "served", "unlock-r">> }
                 ELSE {}) : Respond(e)
    /\ Keep("req")

SpecReq == InitCap /\ [][\/ objectHandler
                         \/ httpobjget
                         \/ httpobjput
                         \/ httpobjdelete
                         \/ httpobjhead
                         \/ AvgCapUsedReport]_vars

\* ------------------------------------------------------------------------
\* restoreObjLBNeigh
\* ------------------------------------------------------------------------
\* aborted || running || gfnActive || !enoughECRestoreTargets
AskNeighbors_always(r) == TRUE

AskNeighbors(r) == r.globalReb \/ r.globalGFN \/ ~r.enoughEC

\* the object is missing: restoreObjLBNeigh is called; the scan of the local
\* mountpaths comes first if local rebalance or local GFN is on
restoreObjLBNeigh ==
    /\ rs.pc \in {"idle", "done"}
    /\ \E lr, lg, gr, gg, ec \in BOOLEAN :
         LET r == [localReb |-> lr, localGFN |-> lg, globalReb |-> gr,
                   globalGFN |-> gg, enoughEC |-> ec,
                   pc |-> "", retry |-> 0, result |-> ""]
         IN  rs' = [r EXCEPT !.pc = IF r.localReb \/ r.localGFN THEN "lfs"
                                    ELSE IF AskNeighbors(r) THEN "neigh"
                                    ELSE "ec"]
    /\ tried' = <<>>
    /\ Keep("restore")

\* getFromOtherLocalFS finds a displaced copy or finds none
getFromOtherLocalFS ==
    /\ rs.pc = "lfs"
    /\ \E found \in BOOLEAN :
         /\ tried' = Append(tried, [s |-> "lfs", ok |-> found])
         /\ rs' = IF found THEN [rs EXCEPT !.pc = "done", !.result = "ok"]
                  ELSE [rs EXCEPT !.pc = IF AskNeighbors(rs) THEN "neigh" ELSE "ec"]
    /\ Keep("restore")

\* one turn of the retry loop
getFromNeighbor_once ==
    /\ rs.pc = "neigh"
    /\ \E found \in BOOLEAN :
         /\ tried' = Append(tried, [s |-> "neigh", ok |-> found])
         /\ rs' = IF found THEN [rs EXCEPT !.pc = "done", !.result = "ok"]
                  ELSE [rs EXCEPT !.retry = @ + 1, !.pc = "ec"]
    /\ Keep("restore")

getFromNeighbor ==
    /\ rs.pc = "neigh"
    /\ \E found \in BOOLEAN :
         /\ tried' = Append(tried, [s |-> "neigh", ok |-> found])
         /\ rs' = IF found THEN [rs EXCEPT !.pc = "done", !.result = "ok"]
                  ELSE [rs EXCEPT !.retry = @ + 1,
                                  !.pc = IF rs.retry + 1 < getFromNeighRetries
                                         THEN "neigh" ELSE "ec"]
    /\ Keep("restore")

\* ecmanager.RestoreObject restores, fails, or EC is disabled
RestoreObject ==
    /\ rs.pc = "ec"
    /\ \E res \in {"ok", "failed", "disabled"} :
         /\ tried' = Append(tried, [s |-> "ec", ok |-> res = "ok"])
         /\ rs' = [rs EXCEPT !.pc = "done",
                             !.result = IF res = "ok" THEN "ok" ELSE "NotFound"]
    /\ Keep("restore")

\* a call that has started runs on; whether the object is missing again is
\* up to the clients
FairRestore ==
    /\ Init /\ [][\/ restoreObjLBNeigh
                  \/ getFromOtherLocalFS
                  \/ getFromNeighbor
                  \/ RestoreObject]_vars
    /\ WF_vars(getFromOtherLocalFS) /\ WF_vars(getFromNeighbor) /\ WF_vars(RestoreObject)

\* ------------------------------------------------------------------------
\* globalGFN
\* ------------------------------------------------------------------------
\* time passes
tick ==
    /\ now < MaxTime
    /\ now' = now + 1
    /\ UNCHANGED <<ggfn, gpc, gact, gret>>
    /\ Keep("gfn")

\* activate: gfn.stopDeadline.Store(now + getFromNeighAfterJoin) ...
activateDeadline ==
    /\ gpc.activator = "idle"
    /\ ggfn' = [ggfn EXCEPT !.stopDeadline = now + getFromNeighAfterJoin]
    /\ gact' = now
    /\ gpc' = [gpc EXCEPT !.activator = "lookup"]
    /\ UNCHANGED <<now, gret>>
    /\ Keep("gfn")

\* ... gfn.lookup.Store(true)
activateLookup ==
    /\ gpc.activator = "lookup"
    /\ ggfn' = [ggfn EXCEPT !.lookup = TRUE]
    /\ gpc' = [gpc EXCEPT !.activator = "idle"]
    /\ UNCHANGED <<now, gact, gret>>
    /\ Keep("gfn")

\* deactivate, called by the activating goroutine
deactivate ==
    /\ gpc.activator = "idle"
    /\ ggfn' = [ggfn EXCEPT !.lookup = FALSE]
    /\ UNCHANGED <<now, gpc, gact, gret>>
    /\ Keep("gfn")

\* active: if !gfn.lookup.Load() { return false }
activeLookup ==
    /\ gpc.asker = "idle"
    /\ IF ggfn.lookup
       THEN /\ gpc' = [gpc EXCEPT !.asker = "deadline"]
            /\ UNCHANGED gret
       ELSE /\ gret' = [t |-> now, ret |-> FALSE, act |-> gact, expired |-> FALSE]
            /\ UNCHANGED gpc
    /\ UNCHANGED <<now, ggfn, gact>>
    /\ Keep("gfn")

\* active: past the deadline it deactivates and returns false
activeDeadline_nodeadline ==
    /\ gpc.asker = "deadline"
    /\ gret' = [t |-> now, ret |-> TRUE, act |-> gact, expired |-> FALSE]
    /\ UNCHANGED ggfn
    /\ gpc' = [gpc EXCEPT !.asker = "idle"]
    /\ UNCHANGED <<now, gact>>
    /\ Keep("gfn")

\* if time.Now().UnixNano() > gfn.stopDeadline.Load(); else return true
activeDeadline ==
    /\ gpc.asker = "deadline"
    /\ IF now > ggfn.stopDeadline
       THEN /\ gpc' = [gpc EXCEPT !.asker = "deactivate", !.seen = gact]
            /\ UNCHANGED gret
       ELSE /\ gret' = [t |-> now, ret |-> TRUE, act |-> gact, expired |-> FALSE]
            /\ gpc' = [gpc EXCEPT !.asker = "idle"]
    /\ UNCHANGED <<now, ggfn, gact>>
    /\ Keep("gfn")

\* gfn.deactivate(); return false
activeDeactivate ==
    /\ gpc.asker = "deactivate"
    /\ ggfn' = [ggfn EXCEPT !.lookup = FALSE]
    /\ gret' = [t |-> now, ret |-> FALSE, act |-> gpc.seen, expired |-> TRUE]
    /\ gpc' = [gpc EXCEPT !.asker = "idle"]
    /\ UNCHANGED <<now, gact>>
    /\ Keep("gfn")

SpecGfn == Init /\ [][\/ tick
                      \/ activateDeadline
                      \/ activateLookup
                      \/ deactivate
                      \/ activeLookup
                      \/ activeDeadline
                      \/ activeDeactivate]_vars

\* ------------------------------------------------------------------------
\* mountpath operations and the local GFN
\* ------------------------------------------------------------------------
\* gfnActive := g.t.gfn.local.Activate()
Activate(c) ==
    /\ mp[c].pc = "idle"
    /\ \E a \in {"enable", "disable", "add", "remove"} :
         mp' = [mp EXCEPT ![c] = [act |-> a, pc |-> "fs", gfnActive |-> lgfn, ret |-> ""]]
    /\ lgfn' = TRUE
    /\ Keep("mp")

\* the operation on fs has failed or changed nothing (r), or has changed the
\* mountpaths
MpReturn(c, r) ==
    /\ mp' = [mp EXCEPT ![c].pc = "idle", ![c].ret = r]
    /\ lgfn' = IF r # "ok" /\ ~mp[c].gfnActive THEN FALSE ELSE lgfn

enableMountpath(c) ==
    /\ mp[c].pc = "fs" /\ mp[c].act = "enable"
    /\ \E r \in {"ok", "err", "noop"} : MpReturn(c, r)
    /\ Keep("mp")

disableMountpath(c) ==
    /\ mp[c].pc = "fs" /\ mp[c].act = "disable"
    /\ \E r \in {"ok", "err", "noop"} : MpReturn(c, r)
    /\ Keep("mp")

addMountpath(c) ==
    /\ mp[c].pc = "fs" /\ mp[c].act = "add"
    /\ \E r \in {"ok", "err"} : MpReturn(c, r)
    /\ Keep("mp")

removeMountpath(c) ==
    /\ mp[c].pc = "fs" /\ mp[c].act = "remove"
    /\ \E r \in {"ok", "err"} : MpReturn(c, r)
    /\ Keep("mp")

SpecMp == Init /\ [][\/ \E c \in MpCallers : Activate(c)
                     \/ \E c \in MpCallers : enableMountpath(c)
                     \/ \E c \in MpCallers : disableMountpath(c)
                     \/ \E c \in MpCallers : addMountpath(c)
                     \/ \E c \in MpCallers : removeMountpath(c)]_vars

\* ------------------------------------------------------------------------
\* targetrunner.Run: the registration loop
\* ------------------------------------------------------------------------
\* IsErrConnectionRefused(ereg) || status == http.StatusRequestTimeout
Retriable_any(e) == e # "nil"

Retriable(e) == e \in {"refused", "timeout"}

\* Run reaches the loop
Run ==
    /\ reg.pc = "init"
    /\ reg' = [reg EXCEPT !.pc = IF 0 < maxRetrySeconds THEN "register" ELSE "serving"]
    /\ UNCHANGED regLog
    /\ Keep("reg")

\* t.register succeeds or fails; after the loop Run returns ereg, or goes on
\* to register the handlers and serve
register ==
    /\ reg.pc = "register"
    /\ \E e \in {"nil", "refused", "timeout", "other"} :
         /\ regLog' = Append(regLog, e)
         /\ reg' = [reg EXCEPT !.ereg = e,
                               !.pc = IF Retriable(e) THEN "sleep"
                                      ELSE IF e # "nil" THEN "returned" ELSE "serving"]
    /\ Keep("reg")

\* time.Sleep(time.Second); continue
retry ==
    /\ reg.pc = "sleep"
    /\ reg' = [reg EXCEPT !.i = @ + 1,
                          !.pc = IF reg.i + 1 < maxRetrySeconds THEN "register"
                                 ELSE IF reg.ereg # "nil" THEN "returned" ELSE "serving"]
    /\ UNCHANGED regLog
    /\ Keep("reg")

FairReg ==
    /\ Init /\ [][\/ Run
                  \/ register
                  \/ retry]_vars
    /\ WF_vars(Run) /\ WF_vars(register) /\ WF_vars(retry)

\* ------------------------------------------------------------------------
\* housekeeper: Reg, Unreg, and the firing of the callbacks
\* ------------------------------------------------------------------------
hkTick ==
    /\ hkNow < MaxClock
    /\ hkNow' = hkNow + 1
    /\ UNCHANGED <<hkReg, hkLast>>
    /\ Keep("hk")

\* Reg(name, f): f is called at once and returns the interval d
Reg_late(n) ==
    /\ ~hkReg[n].on
    /\ \E d \in 1..MaxDur :
         hkReg' = [hkReg EXCEPT ![n] = [on |-> TRUE, base |-> hkNow, wait |-> d,
                                        initial |-> 0, fired |-> FALSE]]
    /\ UNCHANGED <<hkNow, hkLast>>
    /\ Keep("hk")

Reg(n) ==
    /\ ~hkReg[n].on
    /\ \E d \in 1..MaxDur :
         hkReg' = [hkReg EXCEPT ![n] = [on |-> TRUE, base |-> hkNow, wait |-> d,
                                        initial |-> 0, fired |-> TRUE]]
    /\ hkLast' = [name |-> n, t |-> hkNow, base |-> hkNow, wait |-> 0, on |-> TRUE,
                  seq |-> 1 - hkLast.seq]
    /\ UNCHANGED hkNow
    /\ Keep("hk")

\* Reg(name, f, d): f is first called after d
RegInitial(n) ==
    /\ ~hkReg[n].on
    /\ \E d \in 1..MaxDur :
         hkReg' = [hkReg EXCEPT ![n] = [on |-> TRUE, base |-> hkNow, wait |-> d,
                                        initial |-> d, fired |-> FALSE]]
    /\ UNCHANGED <<hkNow, hkLast>>
    /\ Keep("hk")

Unreg(n) ==
    /\ hkReg[n].on
    /\ hkReg' = [hkReg EXCEPT ![n].on = FALSE]
    /\ UNCHANGED <<hkNow, hkLast>>
    /\ Keep("hk")

\* the timer of name n has expired: f is called and returns the next interval
hkFire_stale(n) ==
    /\ hkNow >= hkReg[n].base + hkReg[n].wait
    /\ \E d \in 1..MaxDur :
         hkReg' = [hkReg EXCEPT ![n].base = hkNow, ![n].wait = d, ![n].fired = TRUE]
    /\ hkLast' = [name |-> n, t |-> hkNow, base |-> hkReg[n].base, wait |-> hkReg[n].wait,
                  on |-> hkReg[n].on, seq |-> 1 - hkLast.seq]
    /\ UNCHANGED hkNow
    /\ Keep("hk")

hkFire(n) ==
    /\ hkReg[n].on
    /\ hkNow >= hkReg[n].base + hkReg[n].wait
    /\ \E d \in 1..MaxDur :
         hkReg' = [hkReg EXCEPT ![n].base = hkNow, ![n].wait = d, ![n].fired = TRUE]
    /\ hkLast' = [name |-> n, t |-> hkNow, base |-> hkReg[n].base, wait |-> hkReg[n].wait,
                  on |-> TRUE, seq |-> 1 - hkLast.seq]
    /\ UNCHANGED hkNow
    /\ Keep("hk")

SpecHk == Init /\ [][\/ hkTick
                     \/ \E n \in HkNames : Reg(n)
                     \/ \E n \in HkNames : RegInitial(n)
                     \/ \E n \in HkNames : Unreg(n)
                     \/ \E n \in HkNames : hkFire(n)]_vars

\* ------------------------------------------------------------------------
\* uncoverMeta: metadata discovery
\* ------------------------------------------------------------------------
\* what the test server with handler h does with its cnt-th request: it
\* answers with its Smap and BMD, answers "vote in progress", or fails
discoverServer(h, cnt) ==
    CASE h = "Default" -> "ok"
      [] h = "VoteOnce" -> IF cnt = 1 THEN "vote" ELSE "ok"
      [] h = "FailTwice" -> IF cnt > 2 THEN "ok" ELSE "fail"
      [] h = "AlwaysFail" -> "fail"
      [] OTHER -> "vote"

\* uncoverMeta(discoverSmap) is called, once, when the proxy starts
uncoverMeta ==
    /\ disc.pc = "idle"
    /\ \E S \in SUBSET {"p1", "t1"} :
       \E nodes \in [S -> [h : {"Default", "VoteOnce", "FailTwice", "AlwaysFail",
                                "VoteInProgress"},
                           sv : 0..MaxVersion, lv : 0..MaxVersion,
                           cnt : {0}, ans : {""}]] :
         disc' = [pc |-> "bcast", round |-> 0, nodes |-> nodes, smap |-> 0, bmd |-> 0]
    /\ Keep("disc")

\* one broadcast to all the nodes: the highest versions of those that
\* answered; with a vote in progress, nothing; again unless the deadline
\* has come
bcastMaxVer_noretry ==
    /\ disc.pc = "bcast"
    /\ LET S == DOMAIN disc.nodes
           nodes == [n \in S |->
                       [disc.nodes[n] EXCEPT
                           !.cnt = @ + 1,
                           !.ans = discoverServer(disc.nodes[n].h, disc.nodes[n].cnt + 1)]]
           ok == {n \in S : nodes[n].ans = "ok"}
           vote == \E n \in S : nodes[n].ans = "vote"
           max(V) == IF V = {} THEN 0 ELSE CHOOSE v \in V : \A w \in V : w <= v
       IN  disc' = [pc |-> IF vote /\ disc.round + 1 < MaxRounds THEN "bcast"
                           ELSE "returned",
                    round |-> disc.round + 1,
                    nodes |-> nodes,
                    smap |-> IF vote THEN 0 ELSE max({nodes[n].sv : n \in ok}),
                    bmd |-> IF vote THEN 0 ELSE max({nodes[n].lv : n \in ok})]
    /\ Keep("disc")

bcastMaxVer_ignorevote ==
    /\ disc.pc = "bcast"
    /\ LET S == DOMAIN disc.nodes
           nodes == [n \in S |->
                       [disc.nodes[n] EXCEPT
                           !.cnt = @ + 1,
                           !.ans = discoverServer(disc.nodes[n].h, disc.nodes[n].cnt + 1)]]
           ok == {n \in S : nodes[n].ans # "fail"}
           fail == \E n \in S : nodes[n].ans = "fail"
           max(V) == IF V = {} THEN 0 ELSE CHOOSE v \in V : \A w \in V : w <= v
       IN  disc' = [pc |-> IF fail /\ disc.round + 1 < MaxRounds THEN "bcast"
                           ELSE "returned",
                    round |-> disc.round + 1,
                    nodes |-> nodes,
                    smap |-> max({nodes[n].sv : n \in ok}),
                    bmd |-> max({nodes[n].lv : n \in ok})]
    /\ Keep("disc")

bcastMaxVer ==
    /\ disc.pc = "bcast"
    /\ LET S == DOMAIN disc.nodes
           nodes == [n \in S |->
                       [disc.nodes[n] EXCEPT
                           !.cnt = @ + 1,
                           !.ans = discoverServer(disc.nodes[n].h, disc.nodes[n].cnt + 1)]]
           ok == {n \in S : nodes[n].ans = "ok"}
           vote == \E n \in S : nodes[n].ans = "vote"
           fail == \E n \in S : nodes[n].ans = "fail"
           max(V) == IF V = {} THEN 0 ELSE CHOOSE v \in V : \A w \in V : w <= v
       IN  disc' = [pc |-> IF (vote \/ fail) /\ disc.round + 1 < MaxRounds THEN "bcast"
                           ELSE "returned",
                    round |-> disc.round + 1,
                    nodes |-> nodes,
                    smap |-> IF vote THEN 0 ELSE max({nodes[n].sv : n \in ok}),
                    bmd |-> IF vote THEN 0 ELSE max({nodes[n].lv : n \in ok})]
    /\ Keep("disc")

SpecDisc == Init /\ [][uncoverMeta \/ bcastMaxVer]_vars

\* ------------------------------------------------------------------------
\* unames: strings are sequences of characters, "/" is filepath.Separator
\* ------------------------------------------------------------------------
\* provider, namespace, bucket name and object name, each followed by a
\* separator but the last
MakeUname(bck, objName) ==
    bck.Provider \o <<"/">> \o bck.Ns \o <<"/">> \o bck.Name \o <<"/">> \o objName

\* the items between separators, one by one
ParseUname_split(uname) ==
    LET sep(from) == CHOOSE i \in from..(Len(uname) + 1) :
                        /\ i = Len(uname) + 1 \/ uname[i] = "/"
                        /\ \A j \in from..(i - 1) : uname[j] # "/"
        i1 == sep(1)
        i2 == sep(Min(i1, Len(uname)) + 1)
        i3 == sep(Min(i2, Len(uname)) + 1)
        i4 == sep(Min(i3, Len(uname)) + 1)
    IN  [Provider |-> SubSeq(uname, 1, i1 - 1),
         Ns |-> SubSeq(uname, i1 + 1, i2 - 1),
         Name |-> SubSeq(uname, i2 + 1, i3 - 1),
         objName |-> SubSeq(uname, i3 + 1, i4 - 1)]

\* the items up to the first, the second and the third separator; the
\* object name is all that follows the third
ParseUname(uname) ==
    LET sep(from) == CHOOSE i \in from..(Len(uname) + 1) :
                        /\ i = Len(uname) + 1 \/ uname[i] = "/"
                        /\ \A j \in from..(i - 1) : uname[j] # "/"
        i1 == sep(1)
        i2 == sep(Min(i1, Len(uname)) + 1)
        i3 == sep(Min(i2, Len(uname)) + 1)
    IN  [Provider |-> SubSeq(uname, 1, i1 - 1),
         Ns |-> SubSeq(uname, i1 + 1, i2 - 1),
         Name |-> SubSeq(uname, i2 + 1, i3 - 1),
         objName |-> SubSeq(uname, i3 + 1, Len(uname))]

\* bck := NewBck(bckName, bckProvider, bckNs); uname := bck.MakeUname(objName)
\* for a valid bucket (names of letters, digits, '-', '_', '.': no
\* separator) and any object name
NewBck ==
    /\ un.pc = "idle"
    /\ \E p \in {<<"a", "i", "s">>, <<"a", "w", "s">>, <<"g", "c", "p">>},
          ns \in UNION {[1..k -> {"n", "."}] : k \in 0..MaxName},
          name \in UNION {[1..k -> {"b", "-"}] : k \in 1..MaxName},
          objName \in UNION {[1..k -> {"o", "/"}] : k \in 0..MaxObjName} :
         LET bck == [Name |-> name, Provider |-> p, Ns |-> ns]
         IN  un' = [un EXCEPT !.pc = "made", !.bck = bck, !.objName = objName,
                              !.uname = MakeUname(bck, objName)]
    /\ Keep("uname")

\* gotBck, gotObjName := ParseUname(uname)
ParseUnameCall ==
    /\ un.pc = "made"
    /\ un' = [un EXCEPT !.pc = "parsed", !.got = ParseUname(un.uname)]
    /\ Keep("uname")

SpecUname == Init /\ [][NewBck \/ ParseUnameCall]_vars

\* ------------------------------------------------------------------------
\* Prefetch
\* ------------------------------------------------------------------------
\* t.prefetchQueue <- fwd: with or without a deadline, which may have passed
\* when the request is taken, for a local or a cloud bucket, with or
\* without a done channel
prefetchQueue ==
    /\ Len(pf.queue) + Len(pf.taken) < MaxRequests
    /\ \E dl \in {"zero", "ahead", "passed"}, local \in BOOLEAN, done \in BOOLEAN :
         pf' = [pf EXCEPT !.queue = Append(@, [deadline |-> dl, bckIsLocal |-> local,
                                                done |-> done])]
    /\ Keep("prefetch")

\* Prefetch is started, and one turn of its loop: a request is taken
Prefetch ==
    /\ pf.pc \in {"idle", "loop"}
    /\ pf.queue # <<>>
    /\ LET fwd == Head(pf.queue)
           skip == fwd.deadline = "passed"
       IN  pf' = [pc |-> "loop",
                  queue |-> Tail(pf.queue),
                  taken |-> Append(pf.taken,
                      [fwd |-> fwd,
                       fetched |-> ~skip /\ ~fwd.bckIsLocal,
                       signals |-> IF ~skip /\ fwd.done THEN 1 ELSE 0])]
    /\ Keep("prefetch")

\* default: nothing left to fetch, the routine ends
PrefetchEnd ==
    /\ pf.pc \in {"idle", "loop"}
    /\ pf.queue = <<>>
    /\ pf' = [pf EXCEPT !.pc = "ended"]
    /\ Keep("prefetch")

\* a later call of Prefetch
PrefetchAgain ==
    /\ pf.pc = "ended"
    /\ pf' = [pf EXCEPT !.pc = "idle"]
    /\ Keep("prefetch")

SpecPrefetch == Init /\ [][prefetchQueue \/ Prefetch \/ PrefetchEnd \/ PrefetchAgain]_vars

\* ------------------------------------------------------------------------
\* on-demand xactions: the housekeeping callback and the pending counter
\* ------------------------------------------------------------------------
\* the callback that init registers with the housekeeper, called every
\* idle.dur: active := r.active.Swap(0); then r.Pending() is read and
\* idle.likely is reset, set, or found set; then r.idle.ticks.Close()
init ==
    /\ ~xd.ticks
    /\ \/ /\ xd.cb = "idle"
          /\ xd' = [xd EXCEPT !.cb = "swapped", !.swapped = xd.active, !.active = 0]
       \/ /\ xd.cb = "swapped"
          /\ LET idle == ~(xd.pending > 0 \/ xd.swapped > 0)
             IN  xd' = [xd EXCEPT !.obs = <<xd.obs[2], idle>>,
                                  !.likely = idle,
                                  !.cb = IF idle /\ xd.likely THEN "close" ELSE "idle"]
       \/ /\ xd.cb = "close"
          /\ xd' = [xd EXCEPT !.ticks = TRUE, !.cb = "idle"]
    /\ Keep("xact")

\* r.pending.Inc(); r.active.Inc()
IncPending ==
    /\ \/ /\ xd.inc = "idle"
          /\ xd.pending < MaxPending
          /\ xd' = [xd EXCEPT !.pending = @ + 1, !.inc = "active"]
       \/ /\ xd.inc = "active"
          /\ xd' = [xd EXCEPT !.active = Min(@ + 1, MaxPending), !.inc = "idle"]
    /\ Keep("xact")

\* DecPending: r.pending.Sub(1), by whoever has finished a piece of work
SubPending ==
    /\ xd.pending > 0
    /\ xd' = [xd EXCEPT !.pending = @ - 1]
    /\ Keep("xact")

SpecXact == Init /\ [][init \/ IncPending \/ SubPending]_vars

\* ------------------------------------------------------------------------
\* mountpath events
\* ------------------------------------------------------------------------
\* mutant: the resilver is started whatever is left
delMpathEvent_resilver ==
    /\ \E m \in mpe.avail, action \in {"Disabled", "Removed"}, err \in BOOLEAN :
         LET avail == mpe.avail \ {m}
             zero == avail = {}
         IN  mpe' = [avail |-> avail,
                     disabled |-> IF action = "Disabled" THEN mpe.disabled \cup {m}
                                  ELSE mpe.disabled,
                     enabled |-> IF zero /\ ~err THEN FALSE ELSE mpe.enabled,
                     action |-> action,
                     ev |-> <<"abort", "notify">> \o
                            (IF zero THEN <<"disable">> ELSE <<>>) \o <<"resilver">>]
    /\ Keep("mpevent")

\* a mountpath was enabled or added (fs.Enable, fs.Add): addMpathEvent, with
\* checkEnable; t.enable() may fail
addMpathEvent ==
    /\ \E m \in (1..MaxMpaths) \ mpe.avail, err \in BOOLEAN :
         LET action == IF m \in mpe.disabled THEN "Enabled" ELSE "Added"
             avail == mpe.avail \cup {m}
             first == ~(Cardinality(avail) > 1)
         IN  mpe' = [avail |-> avail,
                     disabled |-> mpe.disabled \ {m},
                     enabled |-> IF first /\ ~err THEN TRUE ELSE mpe.enabled,
                     action |-> action,
                     ev |-> <<"abort", "notify", "resilver">> \o
                            (IF first THEN <<"enable">> ELSE <<>>)]
    /\ Keep("mpevent")

\* a mountpath was disabled or removed (fs.Disable, fs.Remove):
\* delMpathEvent, with checkZeroMountpaths; t.disable() may fail
delMpathEvent ==
    /\ \E m \in mpe.avail, action \in {"Disabled", "Removed"}, err \in BOOLEAN :
         LET avail == mpe.avail \ {m}
             zero == ~(Cardinality(avail) > 0)
         IN  mpe' = [avail |-> avail,
                     disabled |-> IF action = "Disabled" THEN mpe.disabled \cup {m}
                                  ELSE mpe.disabled,
                     enabled |-> IF zero /\ ~err THEN FALSE ELSE mpe.enabled,
                     action |-> action,
                     ev |-> <<"abort", "notify">> \o
                            (IF zero THEN <<"disable">> ELSE <<"resilver">>)]
    /\ Keep("mpevent")

SpecMpathEvent == Init /\ [][addMpathEvent \/ delMpathEvent]_vars

TypeOK ==
    /\ sessST \in {inactive, active}
    /\ Len(workCh) <= Burst
    /\ Len(cmplCh) <= Burst
    /\ postCh \in 0..1
    /\ wg \in 0..2

\* program steps are scheduled fairly; the callers' decisions to call Send,
\* Fin or Stop, the failures of the HTTP request and the collector's idle
\* ticks are not
FairSpec ==
    /\ Spec
    /\ \A p \in Procs : WF_vars(SendCAS(p)) /\ WF_vars(SendPost(p))
                        /\ WF_vars(SendEnq(p)) /\ WF_vars(FinReturn(p))
    /\ WF_vars(doRequest) /\ WF_vars(ReadHdr) /\ WF_vars(ReadData)
    /\ WF_vars(ReadHdrOnly) /\ WF_vars(ReadNext) /\ WF_vars(ReadStopped)
    /\ WF_vars(isNextReq) /\ WF_vars(terminate) /\ WF_vars(sendLoopInflight)
    /\ WF_vars(sendLoopDrain) /\ WF_vars(cmplLoop)

\* ------------------------------------------------------------------------
\* properties
\* ------------------------------------------------------------------------
\* no reader has delivered more bytes than the declared size of its object
ReadersExact ==
    \A i \in DOMAIN wire :
        wire[i].data <= (IF wire[i].Size = lastMarker THEN 0 ELSE wire[i].Size)

RECURSIVE SumSize(_)
SumSize(q) == IF q = <<>> THEN 0 ELSE Head(q).Size + SumSize(Tail(q))

IsUser(e) == e.id # 0
\* the completions of the callers' objects
UserLog == SelectSeq(cmplLog, IsUser)
DoneCnt(id) == Cardinality({i \in DOMAIN cmplLog : cmplLog[i].id = id})
ClosedCnt(id) == Cardinality({i \in DOMAIN cmplLog :
                                 cmplLog[i].id = id /\ cmplLog[i].closed})
\* both loops have finished, and no Send is under way
Drained ==
    /\ term.terminated
    /\ cl = "done"
    /\ sl = "exit" \/ (sl = "drain" /\ workCh = <<>>)
    /\ \A p \in Procs : callers[p].pc \in {"idle", "finwait", "done"}

\* C1: every object for which Send returned nil is completed (objDone)
\* exactly once by the time the stream has terminated and drained, and its
\* reader is closed exactly once.
C1_OneCompletion ==
    /\ \A id \in Accepted : DoneCnt(id) <= 1 /\ ClosedCnt(id) = DoneCnt(id)
    /\ Drained => \A id \in Accepted : DoneCnt(id) = 1

\* C2: the completions of the callers' objects are delivered in the order in
\* which the objects were enqueued on SQ: at any time they are the first
\* objects of that order, in that order.
C2_FIFO ==
    /\ Len(UserLog) <= Len(enqLog)
    /\ \A i \in 1..Len(UserLog) : UserLog[i].id = enqLog[i].id

C2_Witness ==
    /\ Len(UserLog) = 2
    /\ UserLog[1].via \in {"scq", "inflight"}
    /\ UserLog[2].via = "sq"

\* a caller enters Send (or Fin) in this step
SendCalled(p) == callers[p].pc = "idle" /\ callers'[p] # callers[p]

\* C3: once terminated, a stream stays terminated, the send loop does not
\* come back to terminate, and a Send that begins then returns an error
\* without enqueuing, completing anything or touching the session state.
C3_TerminationSticky ==
    [][term.terminated =>
          /\ term'.terminated
          /\ sl' # "term"
          /\ \A p \in Procs : SendCalled(p) =>
                /\ callers'[p].ret = "err"
                /\ callers'[p].pc \in {"idle", "finwait"}
                /\ UNCHANGED <<workCh, enqLog, cmplLog, cmplCh, sessST, postCh>>]_vars

C3_Witness == term.terminated /\ callers[Sender].ret = "err"

\* C4: once Stop has been called, no object of a caller is taken from SQ for
\* transmission, and no object left in SQ is completed with a nil error.
C4_StopDrainsSQ ==
    [][stopCalled =>
          /\ sendoff'.obj = sendoff.obj \/ sendoff'.obj.id = 0
          /\ (Len(cmplLog') > Len(cmplLog) /\ cmplLog'[Len(cmplLog')].via = "sq")
                => cmplLog'[Len(cmplLog')].err # ErrNil]_vars

\* C5: if Stop is called while the payload of an object is being sent, that
\* object is eventually completed with a non-nil error and its reader closed,
\* and the stream is terminated.
C5_AbortMidTransfer ==
    \A id \in 1..MaxObjs :
        (stopInflight = id) ~>
            /\ term.terminated
            /\ \E i \in DOMAIN cmplLog :
                  cmplLog[i].id = id /\ cmplLog[i].err # ErrNil /\ cmplLog[i].closed

\* the objects that were sent in full: completed from, or still in, the SCQ
SentLog == SelectSeq(cmplLog, LAMBDA e : e.id # 0 /\ e.via = "scq" /\ e.err = ErrNil)
SentSCQ == SelectSeq(cmplCh, LAMBDA c : c.obj.id # 0 /\ c.err = ErrNil)
RECURSIVE SumObjSize(_)
SumObjSize(q) == IF q = <<>> THEN 0 ELSE Head(q).obj.Size + SumObjSize(Tail(q))

\* C6: after a reader reported EOF short of obj_size: the object is counted
\* neither in Num nor in Size, the request has ended and the stream
\* terminates with reason error, the object is completed at most once and
\* only with a non-nil error, and exactly once when the send loop has
\* handled the interrupted send.
C6_TruncatedBody ==
    term.err = ErrShort =>
        LET id == sendoff.obj.id
        IN /\ id # 0
           /\ term.reason = reasonError
           /\ sl \in {"term", "wait", "drain"}
           /\ sl # "term" => term.terminated
           /\ stats.Num = Len(SentLog) + Len(SentSCQ)
           /\ stats.Size = SumSize(SentLog) + SumObjSize(SentSCQ)
           /\ \A i \in DOMAIN cmplLog : cmplLog[i].id = id =>
                 cmplLog[i].err = ErrShort /\ cmplLog[i].via = "inflight"
           /\ \A i \in DOMAIN cmplCh : cmplCh[i].obj.id # id
           /\ DoneCnt(id) = (IF sl = "drain" THEN 1 ELSE 0)
           /\ ClosedCnt(id) = DoneCnt(id)

C6_Witness ==
    /\ term.err = ErrShort
    /\ sl = "drain"
    /\ DoneCnt(sendoff.obj.id) = 1
    /\ stats.Num = 1

\* C7 as claimed: after an I/O error has terminated the stream, the entries
\* already in SCQ are completed with the recorded termination error.
C7_SCQWithTermErr ==
    [][(/\ term.terminated
        /\ term.reason = reasonError
        /\ Len(cmplLog') > Len(cmplLog)
        /\ cmplLog'[Len(cmplLog')].via = "scq")
          => cmplLog'[Len(cmplLog')].err = term.err]_vars

\* C7, amended: on an I/O error the stream is marked terminated first; an
\* entry already in SCQ is completed with the error recorded in that entry;
\* the interrupted send is completed, with the termination error, only when
\* the SCQ is empty and the completion loop has ended; the objects left in
\* SQ are completed after it, in queue order, with the termination error.
C7_TerminationOrder ==
    [][(term.reason = reasonError /\ Len(cmplLog') > Len(cmplLog)) =>
          LET e == cmplLog'[Len(cmplLog')]
              Vias == {cmplLog[i].via : i \in DOMAIN cmplLog}
          IN /\ e.via = "scq" =>
                   /\ e.err = Head(cmplCh).err
                   /\ e.id = Head(cmplCh).obj.id
                   /\ Vias \subseteq {"scq"}
             /\ e.via = "inflight" =>
                   /\ term.terminated /\ cl = "done" /\ cmplCh = <<>>
                   /\ e.err = term.err
                   /\ e.id = sendoff.obj.id
                   /\ Vias \subseteq {"scq"}
             /\ e.via = "sq" =>
                   /\ term.terminated /\ cl = "done" /\ cmplCh = <<>>
                   /\ sl = "drain"
                   /\ e.err = term.err
                   /\ e.id = Head(workCh).id]_vars

C7_Witness ==
    /\ term.reason = reasonError
    /\ Len(cmplLog) = 2
    /\ cmplLog[1].via = "scq" /\ cmplLog[1].err = ErrNil
    /\ cmplLog[2].via = "inflight" /\ cmplLog[2].err = ErrIO

\* C8: when Fin has returned, the stream is terminated and every object
\* accepted by Send before the Fin call has been completed.
C8_FinDrained ==
    callers[Finisher].pc = "done" =>
        /\ term.terminated
        /\ \A id \in accAtFin[Finisher] : DoneCnt(id) = 1

\* N objects were sent, then Fin was called and has returned, with no failed
\* request, no failing reader and no Stop
HappyRun ==
    /\ callers[Finisher].pc = "done"
    /\ term.err = ErrNil
    /\ ReadersExact
    /\ ~stopCalled
    /\ Accepted = accAtFin[Finisher]

\* C9: on the happy path, when Fin returns, exactly N completions have
\* fired, in order and all with nil error, Num = N and Size = the sum of the
\* declared sizes.
C9_HappyPath ==
    HappyRun =>
        /\ term.reason = endOfStream
        /\ Len(UserLog) = Len(enqLog)
        /\ \A i \in DOMAIN UserLog :
              UserLog[i].id = enqLog[i].id /\ UserLog[i].err = ErrNil
        /\ \A i \in DOMAIN cmplLog : IsUser(cmplLog[i])
        /\ stats.Num = Len(enqLog)
        /\ stats.Size = SumSize(enqLog)

C9_Witness ==
    /\ HappyRun
    /\ Len(enqLog) = 2
    /\ enqLog[1].Size = 0
    /\ enqLog[2].Size > 0

\* C10: N objects sent without an idle gap, then Fin: exactly one HTTP PUT
\* request has been issued when Fin returns.
C10_OneSession ==
    (HappyRun /\ ticks = 0 /\ Len(enqLog) >= 1) => sessions = 1

\* ------------------------------------------------------------------------
\* idle ticks, sessions and the wire
\* ------------------------------------------------------------------------
\* a frame is complete: its header, and its payload unless it is header-only
FrameDone(f) ==
    /\ f.hdr = HdrLen
    /\ f.data = (IF f.Size = 0 \/ f.Size = lastMarker THEN 0 ELSE f.Size)

\* a frame has ended: its header is out, and its payload has reached obj_size
FrameEnded(f) ==
    /\ f.hdr = HdrLen
    /\ f.data >= (IF f.Size = lastMarker THEN 0 ELSE f.Size)

\* the frames of the callers' objects
UserWire == SelectSeq(wire, LAMBDA f : f.id # 0)

\* no request has failed and no reader has failed or ended short
NoFailure ==
    /\ term.err = ErrNil
    /\ term.reason \in {"", endOfStream, reasonStopped}
    /\ ReadersExact

TickTaken ==
    /\ AtSelect
    /\ workCh # <<>>
    /\ IsIdleTick(Head(workCh))
    /\ workCh' = Tail(workCh)

\* C12: an idle tick that is dequeued while SQ is not empty is dropped: the
\* body is not ended and nothing is put on the wire for it; and unless the
\* stream is stopped or the request fails, the next step of Read takes the
\* next object of SQ and sends its header in the same request.
C12_TickDiscarded ==
    [][/\ (TickTaken /\ Len(workCh) > 1) =>
             /\ sl' = "sel"
             /\ sessions' = sessions
             /\ wire' = wire
             /\ lastCh' = lastCh
       /\ (/\ sl = "sel" /\ IsIdleTick(sendoff.obj) /\ workCh # <<>>
           /\ sl' # sl) =>
             \/ /\ sendoff'.obj = Head(workCh)
                /\ ~IsIdleTick(Head(workCh))
                /\ sessions' = sessions
                /\ Len(wire') = Len(wire) + 1
                /\ wire'[Len(wire')].id = Head(workCh).id
             \/ stopCh /\ sl' = "next"
             \/ sl' = "term" /\ term'.reason = reasonError]_vars

C12_Witness ==
    /\ sl = "req"
    /\ sendoff.obj.id # 0
    /\ ticks >= 1
    /\ sessions = 1
    /\ Len(wire) = 1
    /\ wire[1].id = sendoff.obj.id
    /\ \A i \in DOMAIN workCh : ~IsIdleTick(workCh[i])

\* Read returns io.EOF in this step: the body of the request ends
BodyEnds == sl \in {"req", "sel"} /\ sl' = "next"

SendWaits(p) ==
    \/ callers[p].pc = "post" /\ postCh >= 1
    \/ callers[p].pc = "enq" /\ Len(workCh) >= Burst

\* C14: on a stream that is not terminated, a caller inside Send waits only
\* when SQ is full.
C14_BackPressure ==
    \A p \in Procs :
        (~term.terminated /\ SendWaits(p)) => Len(workCh) = Burst

\* header-only objects of the callers
HdrOnlyIds == {enqLog[i].id : i \in {j \in DOMAIN enqLog : enqLog[j].Size = 0}}

\* C15: a header-only object sent with no reader carries the no-op reader
\* through SQ and SCQ; its frame has a header and no payload; once its
\* header is out and it has left the hand of Read it is in SCQ with a nil
\* error, or completed; it is counted in Num when it enters SCQ; it is
\* completed at most once, with its reader closed, and exactly once when the
\* completion loop has ended.
C15_HeaderOnly ==
    /\ \A i \in DOMAIN workCh :
          (workCh[i].id # 0 /\ workCh[i].Size = 0) => workCh[i].Reader = "nopRC"
    /\ \A i \in DOMAIN wire : wire[i].Size = 0 => wire[i].data = 0
    /\ stats.Num = Len(SentLog) + Len(SentSCQ)
    /\ \A id \in HdrOnlyIds :
          LET inSCQ == {i \in DOMAIN cmplCh : cmplCh[i].obj.id = id}
              inLog == {i \in DOMAIN cmplLog : cmplLog[i].id = id}
              onWire == \E i \in DOMAIN wire : wire[i].id = id /\ FrameDone(wire[i])
          IN /\ Cardinality(inSCQ) + Cardinality(inLog) <= 1
             /\ \A i \in inSCQ : cmplCh[i].err = ErrNil /\ cmplCh[i].obj.Reader = "nopRC"
             /\ \A i \in inLog : cmplLog[i].closed
                                 /\ (cmplLog[i].via = "scq" => cmplLog[i].err = ErrNil)
             /\ (onWire /\ sendoff.obj.id # id) =>
                    Cardinality(inSCQ) + Cardinality(inLog) = 1
             /\ cl = "done" => inSCQ = {}

C15_Witness ==
    /\ Len(cmplLog) >= 1
    /\ cmplLog[1].Size = 0
    /\ cmplLog[1].via = "scq"
    /\ cmplLog[1].closed
    /\ stats.Num >= 1
    /\ wire[1].data = 0

\* C17: the frames on the wire are those of the objects of SQ, in SQ order;
\* in each frame the header is complete before the first payload byte, the
\* payload is never longer than obj_size, and a frame is complete (header,
\* and exactly obj_size bytes of payload) before the next one begins.
C17_WireOrder ==
    /\ Len(UserWire) <= Len(enqLog)
    /\ \A i \in DOMAIN UserWire :
          UserWire[i].id = enqLog[i].id /\ UserWire[i].Size = enqLog[i].Size
    /\ \A i \in DOMAIN wire :
          LET f == wire[i]
          IN /\ f.hdr \in 1..HdrLen
             /\ f.data > 0 => f.hdr = HdrLen
             /\ f.data <= (IF IsLast(f) THEN 0 ELSE f.Size)
             /\ i < Len(wire) => FrameDone(f)

\* ------------------------------------------------------------------------
\* the tasks that hold the object's lock exclusively, by their position
HoldsExcl(t) ==
    IF t \in Writers THEN tpc[t] = "wlocked"
    ELSE tpc[t] \in {"getobj", "mv", "persist", "finish"}

\* a GET has the object downloaded and has not served it yet
Downloaded(t) == tpc[t] \in {"mv", "persist", "finish", "ret-ok"}

Returned(t) == tpc[t] \in {"ret-ok", "ret-pf", "ret-skip", "ret-err", "served"}

\* C16 (SpecDone): the i-th completion of a batch leaves the shared counter
\* at n - i; it runs no callback while the counter is above zero; at zero,
\* or with no counter, it runs the object's callback if there is one, else
\* the stream's if there is one, never both; the reader, if any, is closed
\* in every call.
C16_Completion ==
    /\ odPrc = (IF odIn.shared THEN odIn.n - Len(odLog) ELSE 0)
    /\ \A i \in DOMAIN odLog :
         LET e == odLog[i]
             left == IF odIn.shared THEN odIn.n - i ELSE 0
         IN  /\ e.rc = left
             /\ left > 0 => ~e.objCb /\ ~e.strCb
             /\ left = 0 => /\ e.objCb = odIn.objCb
                            /\ e.strCb = (~odIn.objCb /\ odIn.strCb)
             /\ ~(e.objCb /\ e.strCb)
             /\ e.closed = e.rd

C16_Witness ==
    /\ odIn.shared /\ odIn.n >= 2 /\ odIn.objCb /\ odIn.strCb
    /\ Len(odLog) = odIn.n
    /\ odLog[1].rd /\ odLog[1].closed /\ ~odLog[1].objCb /\ ~odLog[1].strCb
    /\ odLog[odIn.n].objCb /\ ~odLog[odIn.n].strCb

\* C18 (SpecCold): from the end of the download until it has served the
\* object, a GET holds the object's lock, exclusively and then shared, and
\* no other task holds it exclusively.
C18_Downgrade ==
    \A t \in GetTasks :
        Downloaded(t) =>
            /\ lkW = t \/ t \in lkR
            /\ lkW \in {t, NoTask}
            /\ \A u \in Tasks \ {t} : ~HoldsExcl(u)

C18_Witness ==
    /\ tpc["get1"] = "ret-ok"
    /\ "get1" \in lkR
    /\ lkW = NoTask
    /\ tpc["wr"] = "idle"
    /\ tpc["get2"] = "idle"
    /\ ~ENABLED objDeleteLock("wr")

C20_Hysteresis ==
    [][ LET u == capCall'.arg
        IN  IF u = <<>>
            THEN capUsed' = capUsed
            ELSE /\ capUsed'.used = u[1]
                 /\ u[1] > capCfg.OOS => capUsed'.oos
                 /\ capUsed.oos /\ u[1] >= capCfg.HighWM => capUsed'.oos
                 /\ capUsed.oos /\ u[1] < capCfg.HighWM => ~capUsed'.oos
                 /\ ~capUsed.oos /\ u[1] <= capCfg.OOS => ~capUsed'.oos ]_vars

C20_Witness ==
    /\ capCall.was /\ capUsed.oos
    /\ capCall.arg # <<>>
    /\ capCall.arg[1] >= capCfg.HighWM
    /\ capCall.arg[1] <= capCfg.OOS

\* ------------------------------------------------------------------------
\* what a handler does to the object and to its lock
Touches == {"lock-x", "lock-r", "load", "load-failed", "workfile", "rename", "persist",
            "cloudDel", "cloudDel-failed", "localDel", "localDel-failed", "downgrade"}

\* the exclusive lock is taken once, released once, and held around every
\* access to the object
UnderLock(e) ==
    /\ \A x \in {"lock-x", "unlock-x"} : Cardinality({i \in DOMAIN e : e[i] = x}) = 1
    /\ \A i \in DOMAIN e :
         e[i] \in Touches \ {"lock-x"} =>
            \E j, k \in DOMAIN e : j < i /\ i < k /\ e[j] = "lock-x" /\ e[k] = "unlock-x"

\* C21 (SpecReq): a PUT handled while oos is set is rejected with no LOM, no
\* workfile, no lock and no change of the object; a GET is never rejected
\* for oos.
C21_OOSRejectsPut ==
    /\ (rq.pc = "done" /\ rq.method = "PUT" /\ rq.oos) =>
            /\ Has(ev, "reject")
            /\ ~Has(ev, "lom")
            /\ \A i \in DOMAIN ev : ev[i] \notin Touches
    /\ (rq.pc = "done" /\ rq.method = "GET") => ~Has(ev, "oos")

C21_Witness ==
    /\ rq.pc = "done" /\ rq.method = "PUT" /\ rq.oos
    /\ ev = <<"oos", "reject">>

\* C22: a GET, PUT, DELETE or HEAD with no proxy id, or with the id of a
\* gateway that is not in the Smap, is rejected before the object's lock is
\* taken and before the object is read or changed.
C22_RedirectedOnly ==
    (rq.pc = "done" /\ ~verifyProxyRedirection(rq.pid)) =>
        /\ Has(ev, "reject")
        /\ \A i \in DOMAIN ev : ev[i] \notin Touches

\* C27 as claimed: a DELETE that is an evict or is on an ais bucket never
\* calls the cloud delete; a DELETE on a cloud bucket that is not an evict
\* calls it and removes the local copies; the exclusive lock is held around
\* both and released once.
C27_DeleteFrame ==
    (rq.pc = "done" /\ rq.method = "DELETE" /\ Has(ev, "lock-x")) =>
        /\ (rq.evict \/ rq.ais) => ~Has(ev, "cloudDel") /\ ~Has(ev, "cloudDel-failed")
        /\ (~rq.evict /\ ~rq.ais) => Has(ev, "cloudDel") \/ Has(ev, "cloudDel-failed")
        /\ ~objLocal
        /\ UnderLock(ev)

\* C27, amended: as C27, for the DELETEs whose LOM loads; the local copies
\* are gone afterwards unless their removal itself failed, also when the
\* cloud delete failed; a DELETE whose LOM does not load calls nothing and
\* removes nothing.
C27_DeleteLoaded ==
    (rq.pc = "done" /\ rq.method = "DELETE" /\ Has(ev, "lock-x")) =>
        /\ (rq.evict \/ rq.ais) => ~Has(ev, "cloudDel") /\ ~Has(ev, "cloudDel-failed")
        /\ (~rq.evict /\ ~rq.ais /\ Has(ev, "load")) =>
                Has(ev, "cloudDel") \/ Has(ev, "cloudDel-failed")
        /\ (Has(ev, "load") /\ ~Has(ev, "localDel-failed")) => ~objLocal
        /\ Has(ev, "load-failed") =>
                \A x \in {"cloudDel", "cloudDel-failed", "localDel", "localDel-failed"} :
                    ~Has(ev, x)
        /\ UnderLock(ev)

C27_Witness ==
    /\ rq.pc = "done" /\ rq.method = "DELETE" /\ ~rq.ais /\ ~rq.evict
    /\ ev = <<"lom", "lock-x", "load", "cloudDel-failed", "localDel", "unlock-x", "reject">>
    /\ ~objLocal

\* ------------------------------------------------------------------------
\* the attempts of strategy x
Attempts(x) == {i \in DOMAIN tried : tried[i].s = x}

\* C23 (FairRestore): NotFound is returned only when every selected
\* strategy was attempted and failed - the scan if selected, the neighbor
\* lookup getFromNeighRetries times if selected, and the EC restore; success
\* is returned with the first attempt that succeeds, and nothing is
\* attempted after it.
C23_NotFoundLast ==
    /\ rs.result = "NotFound" =>
            /\ rs.pc = "done"
            /\ \A i \in DOMAIN tried : ~tried[i].ok
            /\ (rs.localReb \/ rs.localGFN) => Cardinality(Attempts("lfs")) = 1
            /\ (rs.globalReb \/ rs.globalGFN \/ ~rs.enoughEC) =>
                    Cardinality(Attempts("neigh")) = getFromNeighRetries
            /\ tried[Len(tried)].s = "ec"
    /\ rs.result = "ok" =>
            /\ rs.pc = "done"
            /\ tried # <<>> /\ tried[Len(tried)].ok
            /\ \A i \in 1..(Len(tried) - 1) : ~tried[i].ok
    /\ (\E i \in DOMAIN tried : tried[i].ok) => rs.result = "ok"

C23_Witness ==
    /\ rs.result = "NotFound"
    /\ rs.localGFN /\ rs.globalGFN
    /\ Len(tried) = getFromNeighRetries + 2

\* C24 (FairRestore): the scan is attempted only when local rebalance is
\* running or aborted or local GFN is active, and then once; the neighbor
\* lookup only when global rebalance is running or aborted, global GFN is
\* active or EC has too few targets, and then at most getFromNeighRetries
\* times; the EC restore at most once, and alone when none of these holds;
\* every call returns.
C24_DecisionTable ==
    /\ [](/\ Attempts("lfs") # {} => rs.localReb \/ rs.localGFN
          /\ Cardinality(Attempts("lfs")) <= 1
          /\ Attempts("neigh") # {} => rs.globalReb \/ rs.globalGFN \/ ~rs.enoughEC
          /\ Cardinality(Attempts("neigh")) <= getFromNeighRetries
          /\ Cardinality(Attempts("ec")) <= 1
          /\ (rs.pc = "done" /\ ~(rs.localReb \/ rs.localGFN)
                /\ ~(rs.globalReb \/ rs.globalGFN \/ ~rs.enoughEC)) =>
                    Len(tried) = 1 /\ tried[1].s = "ec")
    /\ (rs.pc \in {"lfs", "neigh", "ec"} ~> rs.pc = "done")

C24_Witness ==
    /\ rs.pc = "done"
    /\ ~rs.localReb /\ ~rs.localGFN /\ ~rs.globalReb /\ ~rs.globalGFN /\ rs.enoughEC
    /\ Len(tried) = 1 /\ tried[1].s = "ec"

\* ------------------------------------------------------------------------
\* C25 (SpecGfn): active() returns true only up to getFromNeighAfterJoin
\* after the last activate(); past that it returns false, with no
\* deactivate() called, and goes on returning false until activate() is
\* called again.
C25_GFNDeadline ==
    /\ gret.ret => gret.act >= 0 /\ gret.t <= gret.act + getFromNeighAfterJoin
    /\ gret.expired => ~gret.ret /\ gret.t > gret.act + getFromNeighAfterJoin

C25_Witness ==
    /\ gret.expired
    /\ gret.act = gact
    /\ ~ggfn.lookup
    /\ now > gret.t

\* C26 (SpecMp): while a mountpath operation is between its Activate() and
\* its return, the local GFN is active.
C26_GFNWindow ==
    \A c \in MpCallers : mp[c].pc = "fs" => lgfn

\* ------------------------------------------------------------------------
\* C28 (FairReg): t.register is called again only after a connection-refused
\* or request-timeout failure, and at most maxRetrySeconds times; Run
\* returns the error, and does not serve, when the last call failed; it
\* serves only after a call that succeeded; the loop is always left.
C28_Registration ==
    /\ [](/\ Len(regLog) <= maxRetrySeconds
          /\ \A k \in 1..(Len(regLog) - 1) : regLog[k] \in {"refused", "timeout"}
          /\ reg.pc = "returned" =>
                /\ regLog # <<>> /\ regLog[Len(regLog)] # "nil"
                /\ regLog[Len(regLog)] = "other" \/ Len(regLog) = maxRetrySeconds
          /\ reg.pc = "serving" => regLog # <<>> /\ regLog[Len(regLog)] = "nil")
    /\ <>(reg.pc \in {"returned", "serving"})

C28_Witness ==
    /\ reg.pc = "returned"
    /\ Len(regLog) = maxRetrySeconds
    /\ regLog[Len(regLog)] = "timeout"

\* C29 (SpecHk): every firing of a callback happens at its registration, if
\* it was registered with no initial interval, or not earlier than the
\* initial interval after its registration, or not earlier than the
\* interval it returned after its previous firing.
C29_HkTiming ==
    /\ hkLast.name # "" => hkLast.t >= hkLast.base + hkLast.wait
    /\ \A n \in HkNames :
         hkReg[n].on =>
            /\ hkReg[n].initial = 0 => hkReg[n].fired
            /\ ~hkReg[n].fired => hkReg[n].wait = hkReg[n].initial

C29_Witness ==
    /\ hkLast.name = "foo" /\ hkLast.wait = MaxDur /\ hkLast.t = hkLast.base + MaxDur
    /\ hkReg["bar"].on /\ hkReg["bar"].base = 0 /\ hkReg["bar"].wait = 1
    /\ hkNow > 1

\* C30 (SpecHk): a callback fires only while its name is registered: never
\* after Unreg(name) until the name is registered again, whatever the other
\* names do.
C30_UnregStops ==
    [][ hkLast' # hkLast =>
            /\ hkLast'.on
            /\ hkReg[hkLast'.name].on \/ hkReg'[hkLast'.name].on ]_vars

C30_Witness ==
    /\ hkLast.name = "bar" /\ hkLast.t = hkNow /\ hkLast.wait >= 1
    /\ ~hkReg["foo"].on /\ hkReg["foo"].base + hkReg["foo"].wait < hkNow
    /\ hkReg["foo"].wait >= 1

\* C31 (SpecDisc): uncoverMeta returns the highest Smap version and the
\* highest BMD version among the nodes that answered, each chosen on its
\* own and 0 meaning none; a node that fails is asked again until the
\* deadline, so that the server that fails twice is heard at the third
\* broadcast; nodes that fail to the end are left out, and with no node
\* that answered nothing is returned.
C31_HighestVersions ==
    disc.pc = "returned" =>
        LET S == DOMAIN disc.nodes
            ok == {n \in S : disc.nodes[n].ans = "ok"}
        IN  /\ (\A n \in S : disc.nodes[n].ans # "vote") =>
                  /\ \A n \in ok : /\ disc.smap >= disc.nodes[n].sv
                                   /\ disc.bmd >= disc.nodes[n].lv
                  /\ disc.smap # 0 => \E n \in ok : disc.nodes[n].sv = disc.smap
                  /\ disc.bmd # 0 => \E n \in ok : disc.nodes[n].lv = disc.bmd
            /\ ok = {} => disc.smap = 0 /\ disc.bmd = 0
            /\ \A n \in S :
                  /\ disc.nodes[n].ans = "fail" => disc.round >= MaxRounds
                  /\ disc.nodes[n].h = "FailTwice" /\ disc.round >= 3 => n \in ok
                  /\ disc.nodes[n].h = "AlwaysFail" => n \notin ok

C31_Witness ==
    /\ disc.pc = "returned" /\ DOMAIN disc.nodes = {"p1", "t1"}
    /\ disc.nodes["t1"].h = "FailTwice" /\ disc.nodes["t1"].cnt = 3
    /\ disc.nodes["t1"].sv = 1 /\ disc.nodes["t1"].lv = 2
    /\ disc.nodes["p1"].h = "Default"
    /\ disc.nodes["p1"].sv = 2 /\ disc.nodes["p1"].lv = 0
    /\ disc.smap = 2 /\ disc.bmd = 2

\* C32 (SpecDisc): with a node that still answers "vote in progress" at the
\* last broadcast before the deadline, uncoverMeta returns no Smap and no
\* BMD, whatever the other nodes answered, and it does not return earlier;
\* the server that votes once is asked again, and with only such servers
\* and plain ones the second broadcast returns the highest versions.
C32_VoteInProgress ==
    disc.pc = "returned" =>
        LET S == DOMAIN disc.nodes
        IN  /\ (\E n \in S : disc.nodes[n].ans = "vote") =>
                  disc.smap = 0 /\ disc.bmd = 0 /\ disc.round >= MaxRounds
            /\ \A n \in S : disc.nodes[n].h = "VoteOnce" =>
                  disc.nodes[n].cnt >= 2 /\ disc.nodes[n].ans = "ok"
            /\ /\ \A n \in S : disc.nodes[n].h \in {"Default", "VoteOnce"}
               /\ \E n \in S : disc.nodes[n].h = "VoteOnce"
               => /\ disc.round = 2
                  /\ \A n \in S : /\ disc.smap >= disc.nodes[n].sv
                                  /\ disc.bmd >= disc.nodes[n].lv

C32_Witness ==
    /\ disc.pc = "returned" /\ DOMAIN disc.nodes = {"p1", "t1"}
    /\ disc.nodes["t1"].h = "VoteInProgress" /\ disc.nodes["t1"].sv = 2
    /\ disc.nodes["p1"].h = "Default" /\ disc.nodes["p1"].sv = 1
    /\ disc.nodes["p1"].lv = 2 /\ disc.nodes["p1"].ans = "ok"
    /\ disc.round = MaxRounds /\ disc.smap = 0 /\ disc.bmd = 0

\* C33 (SpecUname): ParseUname(bck.MakeUname(objName)) gives back the name,
\* the provider and the namespace of the bucket and the object name, for
\* every valid bucket and every object name, with or without separators
\* in it.
C33_UnameRoundTrip ==
    un.pc = "parsed" =>
        /\ un.got.Name = un.bck.Name
        /\ un.got.Provider = un.bck.Provider
        /\ un.got.Ns = un.bck.Ns
        /\ un.got.objName = un.objName

C33_Witness ==
    /\ un.pc = "parsed"
    /\ un.objName = <<"o", "/", "o">>
    /\ un.bck.Ns = <<>> /\ un.bck.Name = <<"b", "-">>
    /\ un.got.objName = <<"o", "/", "o">>

\* C34 (FairSpec): an object for which Send returned nil is eventually put on
\* the wire in full and completed, unless Send, Fin or Stop is called after
\* it, the request fails, or its reader never delivers; idle ticks may come
\* at any moment.
C34_NoLostWakeup ==
    \A id \in 1..MaxObjs :
        (id \in Accepted) ~>
            \/ \E i \in DOMAIN cmplLog :
                  cmplLog[i].id = id /\ cmplLog[i].via = "scq"
            \/ nextId > id + 1
            \/ callers[Sender].pc # "idle"
            \/ callers[Finisher].pc # "idle"
            \/ stopCalled
            \/ term.reason # ""
            \/ sl = "blocked"

\* C35: objDone, and with it the callback, runs only for objects that a
\* caller passed to Send: never for an idle tick or for the last marker, be
\* it from the SCQ, for the interrupted send, or from the residual SQ.
C35_UserCallbacksOnly ==
    \A i \in DOMAIN cmplLog : IsUser(cmplLog[i])

\* C36 (SpecIdle): with buffers shorter than the header, the header goes out
\* in pieces: a Read that adds header bytes to a frame on the wire resumes
\* at the saved offset and never passes the end of the header; the Read
\* that sends the last byte, and no other, adds the length of the header
\* to Offset and resets the offset for the payload; payload bytes are added
\* only to a frame whose header is complete, and a new frame starts only
\* after a frame whose header is complete.
C36_SplitHeader ==
    [][ LET k == Len(wire')
            new == Len(wire') = Len(wire) + 1
            more == Len(wire') = Len(wire) /\ k > 0 /\ wire'[k].hdr > wire[k].hdr
        IN  /\ new =>
                 /\ k > 1 => wire[k - 1].hdr = HdrLen
                 /\ wire'[k].hdr \in 1..HdrLen /\ wire'[k].data = 0
            /\ more =>
                 /\ wire[k].hdr = sendoff.off /\ sendoff.dod = 0
                 /\ wire[k].id = sendoff.obj.id
                 /\ wire'[k].hdr <= HdrLen /\ wire'[k].data = 0
            /\ (new \/ more) =>
                 IF wire'[k].hdr = HdrLen
                 THEN /\ stats'.Offset = stats.Offset + HdrLen
                      /\ sendoff'.dod = HdrLen /\ sendoff'.off = 0
                 ELSE /\ stats'.Offset = stats.Offset
                      /\ sendoff'.dod = 0 /\ sendoff'.off = wire'[k].hdr
            /\ (Len(wire') = Len(wire) /\ k > 0 /\ wire'[k].data > wire[k].data) =>
                 wire[k].hdr = HdrLen /\ wire'[k].hdr = HdrLen ]_vars

C36_Witness ==
    /\ Len(wire) = 2
    /\ wire[1].hdr = HdrLen /\ wire[1].data = MaxSize
    /\ wire[2].hdr = HdrLen - 1 /\ sendoff.off = HdrLen - 1 /\ sendoff.dod = 0
    /\ stats.Offset = HdrLen + MaxSize

\* C37 (SpecGfn): once activate() has returned, no active() switches the
\* lookup off before the deadline of that activation has passed: the only
\* other step that switches it off is deactivate().
C37_ActivationKept ==
    [][ (/\ gpc.asker = "deactivate" /\ gpc'.asker = "idle"
         /\ gpc.activator = "idle"
         /\ ggfn.lookup /\ ~ggfn'.lookup)
            => now > ggfn.stopDeadline ]_vars

\* C38 (SpecPrefetch): every request taken from the prefetch queue with a
\* done channel gets exactly one signal on it, whether it is skipped or
\* not, and none without; the routine ends only with the queue empty.
C38_PrefetchDone ==
    [][ /\ Len(pf'.taken) > Len(pf.taken) =>
              LET r == pf'.taken[Len(pf'.taken)]
              IN  r.signals = IF r.fwd.done THEN 1 ELSE 0
        /\ \A i \in DOMAIN pf.taken : pf'.taken[i] = pf.taken[i]
        /\ (pf.pc # "ended" /\ pf'.pc = "ended") => pf.queue = <<>> ]_vars

\* C39 (SpecXact): the idle tick is sent only by a callback that observed no
\* pending work and no IncPending since the previous callback, after a
\* previous callback that observed the same, and never while there is
\* pending work.
C39_IdleConfirmed ==
    [][ (~xd.ticks /\ xd'.ticks) =>
            /\ xd.obs[1] /\ xd.obs[2]
            /\ xd.pending = 0 ]_vars

\* C40 (SpecMpathEvent): after a remove or disable that leaves no available
\* mountpath the target has called disable() on itself and has started no
\* resilver; after an add or enable that makes the only available
\* mountpath it has called enable() on itself; in every event the
\* mountpath xactions are aborted first and the runners notified next.
C40_MpathEvents ==
    mpe.action # "" =>
        /\ mpe.ev[1] = "abort" /\ mpe.ev[2] = "notify"
        /\ (mpe.action \in {"Disabled", "Removed"} /\ mpe.avail = {}) =>
              Has(mpe.ev, "disable") /\ ~Has(mpe.ev, "resilver")
        /\ (mpe.action \in {"Enabled", "Added"} /\ Cardinality(mpe.avail) = 1) =>
              Has(mpe.ev, "enable")

C40_Witness ==
    /\ mpe.action = "Enabled" /\ Cardinality(mpe.avail) = 1
    /\ mpe.disabled # {} /\ ~mpe.enabled
    /\ mpe.ev = <<"abort", "notify", "resilver", "enable">>

====
